---- MODULE Spec2Model ----
\* Verification model of the chat relay of Mateogiraldo67/chatbot:
\*   - the relay route POST /api/chat/send (chunkText and the SSE encoder),
\*   - the client-side stream consumers (handleSendMessage, handleSubmit).
\* Texts are sequences of one-character strings; indices in the operators
\* that model JavaScript string methods are 0-based as in the source.
EXTENDS Integers, Sequences, FiniteSets, TLC

\* ------------------------------------------------------------------
\* Bounds of the model
\* ------------------------------------------------------------------

\* longest user text enumerated exhaustively over Char
MaxInputLen == 2

\* longest upstream output enumerated exhaustively over Char
MaxOutLen == 2

\* length of the long user text (long enough for the mock reply to exceed one window)
LongInputLen == 450

\* length of the long word used to build upstream outputs larger than one window
LongWordLen == 710

\* longest text chunkText is applied to exhaustively over ChunkChar
MaxTextLen == 4

\* largest chunk size chunkText is applied with on those texts
MaxChunkSize == 3

\* ------------------------------------------------------------------
\* Program constants
\* ------------------------------------------------------------------

\* chunk size passed to chunkText by the route
ChunkSize == 700

\* number of characters of the received payload kept in the repair message
DumpLimit == 200

\* topK and temperature sent upstream when the request gives none
DefaultTopK == 5

DefaultTemperature == 0

\* ------------------------------------------------------------------
\* Texts
\* ------------------------------------------------------------------

\* the characters texts are enumerated over: a letter, a space, a sentence end
Char == {"a", " ", "."}

\* characters removed by String.prototype.trim
Whitespace == {" ", "\n", "\t", "\r"}

\* None / Some(x): an optional value (a field that may be absent)
None == << >>

Some(x) == << x >>

Min(a, b) == IF a < b THEN a ELSE b

Max(a, b) == IF a > b THEN a ELSE b

\* all texts over Char of length lo..hi
TextsOfLen(lo, hi) == UNION { [1..n -> Char] : n \in lo..hi }

\* the text made of n copies of character c
Rep(c, n) == [i \in 1..n |-> c]

\* mutant of lastIndexOf: the first occurrence up to fromIndex, not the last
firstIndexOf(text, c, fromIndex) ==
  LET upto == Min(fromIndex, Len(text) - 1)
      hits == { i \in 0..upto : text[i + 1] = c }
  IN  IF hits = {} THEN -1 ELSE CHOOSE i \in hits : \A j \in hits : i <= j

\* String.prototype.lastIndexOf(c, fromIndex) for a one-character c; -1 when absent
lastIndexOf(text, c, fromIndex) ==
  LET upto == Min(fromIndex, Len(text) - 1)
      hits == { i \in 0..upto : text[i + 1] = c }
  IN  IF hits = {} THEN -1 ELSE CHOOSE i \in hits : \A j \in hits : j <= i

\* String.prototype.slice(start, end) for 0 <= start
slice(text, start, end) == SubSeq(text, start + 1, Min(end, Len(text)))

\* String.prototype.substring(0, n)
substring0(text, n) == SubSeq(text, 1, Min(n, Len(text)))

RECURSIVE trimStart(_)
trimStart(text) ==
  IF text # << >> /\ Head(text) \in Whitespace THEN trimStart(Tail(text)) ELSE text

RECURSIVE trimEnd(_)
trimEnd(text) ==
  IF text # << >> /\ text[Len(text)] \in Whitespace
  THEN trimEnd(SubSeq(text, 1, Len(text) - 1))
  ELSE text

\* String.prototype.trim
trim(text) == trimEnd(trimStart(text))

\* String.prototype.includes: needle occurs in text as a contiguous run
Contains(text, needle) ==
  \E k \in 0..(Len(text) - Len(needle)) : SubSeq(text, k + 1, k + Len(needle)) = needle

\* the concatenation of a sequence of texts
RECURSIVE Concat(_)
Concat(texts) == IF texts = << >> THEN << >> ELSE Head(texts) \o Concat(Tail(texts))

\* ------------------------------------------------------------------
\* TextChunker
\* ------------------------------------------------------------------

\* mutant of chunkEnd: the cut is made before the sentence end, not after it
chunkEndBeforeTerminator(text, chunkSize, currentIndex) ==
  LET endIndex == currentIndex + chunkSize
  IN  IF endIndex < Len(text)
      THEN LET sentenceEnd == lastIndexOf(text, ".", endIndex)
               questionEnd == lastIndexOf(text, "?", endIndex)
               exclamationEnd == lastIndexOf(text, "!", endIndex)
               maxSentenceEnd == Max(sentenceEnd, Max(questionEnd, exclamationEnd))
               spaceIndex == lastIndexOf(text, " ", endIndex)
           IN  IF maxSentenceEnd > currentIndex THEN maxSentenceEnd
               ELSE IF spaceIndex > currentIndex THEN spaceIndex
               ELSE endIndex
      ELSE endIndex

\* the end index chosen by one iteration of the while loop of chunkText
chunkEnd(text, chunkSize, currentIndex) ==
  LET endIndex == currentIndex + chunkSize
  IN  IF endIndex < Len(text)
      THEN LET sentenceEnd == lastIndexOf(text, ".", endIndex)
               questionEnd == lastIndexOf(text, "?", endIndex)
               exclamationEnd == lastIndexOf(text, "!", endIndex)
               maxSentenceEnd == Max(sentenceEnd, Max(questionEnd, exclamationEnd))
               spaceIndex == lastIndexOf(text, " ", endIndex)
           IN  IF maxSentenceEnd > currentIndex THEN maxSentenceEnd + 1
               ELSE IF spaceIndex > currentIndex THEN spaceIndex
               ELSE endIndex
      ELSE endIndex

\* the while loop of chunkText: the trimmed slices pushed from currentIndex on
RECURSIVE chunkLoop(_, _, _)
chunkLoop(text, chunkSize, currentIndex) ==
  IF currentIndex < Len(text)
  THEN LET endIndex == chunkEnd(text, chunkSize, currentIndex)
       IN  << trim(slice(text, currentIndex, endIndex)) >> \o chunkLoop(text, chunkSize, endIndex)
  ELSE << >>

\* chunkText(text, chunkSize): the pushed slices with the empty ones filtered out
chunkText(text, chunkSize) == SelectSeq(chunkLoop(text, chunkSize, 0), LAMBDA c : Len(c) > 0)

\* the mock text before the user text (50 characters, accents folded to ASCII)
MockPrefix ==
  << "E", "s", "t", "a", " ", "e", "s", " ", "u", "n", "a", " ", "r", "e", "s", "p", "u", "e",
     "s", "t", "a", " ", "s", "i", "m", "u", "l", "a", "d", "a", " ", "p", "a", "r", "a", " ",
     "t", "u", " ", "p", "r", "e", "g", "u", "n", "t", "a", ":", " ", "\"" >>

\* the mock text between the user text and the webhook URL (72 characters, accents folded to ASCII)
MockMiddle ==
  << "\"", ".", " ", "E", "l", " ", "s", "i", "s", "t", "e", "m", "a", " ", "e", "s", "t", "a",
     " ", "f", "u", "n", "c", "i", "o", "n", "a", "n", "d", "o", " ", "c", "o", "r", "r", "e",
     "c", "t", "a", "m", "e", "n", "t", "e", ",", " ", "p", "e", "r", "o", " ", "e", "l", " ",
     "w", "e", "b", "h", "o", "o", "k", " ", "d", "e", " ", "N", "8", "N", " ", "e", "n", " " >>

\* the mock text after the webhook URL (104 characters, accents folded to ASCII)
MockSuffix ==
  << " ", "n", "o", " ", "e", "s", "t", "a", " ", "d", "i", "s", "p", "o", "n", "i", "b", "l",
     "e", " ", "e", "n", " ", "e", "s", "t", "e", " ", "m", "o", "m", "e", "n", "t", "o", ".",
     " ", "P", "o", "r", " ", "f", "a", "v", "o", "r", ",", " ", "v", "e", "r", "i", "f", "i",
     "c", "a", " ", "q", "u", "e", " ", "t", "u", " ", "w", "o", "r", "k", "f", "l", "o", "w",
     " ", "d", "e", " ", "N", "8", "N", " ", "e", "s", "t", "e", " ", "a", "c", "t", "i", "v",
     "o", " ", "y", " ", "a", "c", "c", "e", "s", "i", "b", "l", "e", "." >>

\* the repair text before the dump (170 characters, accents folded to ASCII)
RepairPrefix ==
  << "E", "l", " ", "f", "l", "u", "j", "o", " ", "d", "e", " ", "N", "8", "N", " ", "s", "e",
     " ", "e", "j", "e", "c", "u", "t", "o", " ", "c", "o", "r", "r", "e", "c", "t", "a", "m",
     "e", "n", "t", "e", " ", "p", "e", "r", "o", " ", "n", "o", " ", "d", "e", "v", "o", "l",
     "v", "i", "o", " ", "u", "n", "a", " ", "r", "e", "s", "p", "u", "e", "s", "t", "a", " ",
     "v", "a", "l", "i", "d", "a", ".", " ", "L", "a", " ", "e", "s", "t", "r", "u", "c", "t",
     "u", "r", "a", " ", "d", "e", " ", "l", "a", " ", "r", "e", "s", "p", "u", "e", "s", "t",
     "a", " ", "n", "o", " ", "c", "o", "n", "t", "i", "e", "n", "e", " ", "e", "l", " ", "c",
     "a", "m", "p", "o", " ", "\"", "o", "u", "t", "p", "u", "t", "\"", " ", "e", "s", "p",
     "e", "r", "a", "d", "o", ".", " ", "C", "o", "n", "t", "e", "n", "i", "d", "o", " ", "r",
     "e", "c", "i", "b", "i", "d", "o", ":", " " >>

\* a configured N8N_BASE_URL (21 characters, accents folded to ASCII)
BaseUrlText ==
  << "h", "t", "t", "p", ":", "/", "/", "l", "o", "c", "a", "l", "h", "o", "s", "t", ":", "5",
     "6", "7", "8" >>

\* a configured N8N_WEBHOOK_PATH (13 characters, accents folded to ASCII)
DefaultPathText ==
  << "/", "w", "e", "b", "h", "o", "o", "k", "/", "c", "h", "a", "t" >>

\* a configured N8N_GEMINI_WEBHOOK_PATH (15 characters, accents folded to ASCII)
GeminiPathText ==
  << "/", "w", "e", "b", "h", "o", "o", "k", "/", "g", "e", "m", "i", "n", "i" >>

\* the user text of the fault-injection example (4 characters, accents folded to ASCII)
Hola ==
  << "H", "o", "l", "a" >>

\* JSON text of the output key (9 characters, accents folded to ASCII)
KeyOutput ==
  << "\"", "o", "u", "t", "p", "u", "t", "\"", ":" >>

\* JSON text of the sources key (10 characters, accents folded to ASCII)
KeySources ==
  << "\"", "s", "o", "u", "r", "c", "e", "s", "\"", ":" >>

\* JSON text of the usage key (8 characters, accents folded to ASCII)
KeyUsage ==
  << "\"", "u", "s", "a", "g", "e", "\"", ":" >>

\* JSON text of Source1 (37 characters, accents folded to ASCII)
Source1Text ==
  << "{", "\"", "t", "i", "t", "l", "e", "\"", ":", "\"", "t", "\"", ",", "\"", "u", "r", "l",
     "\"", ":", "\"", "u", "\"", ",", "\"", "s", "n", "i", "p", "p", "e", "t", "\"", ":", "\"",
     "s", "\"", "}" >>

\* JSON text of Usage1 (55 characters, accents folded to ASCII)
Usage1Text ==
  << "{", "\"", "p", "r", "o", "m", "p", "t", "T", "o", "k", "e", "n", "s", "\"", ":", "1",
     ",", "\"", "c", "o", "m", "p", "l", "e", "t", "i", "o", "n", "T", "o", "k", "e", "n", "s",
     "\"", ":", "2", ",", "\"", "t", "o", "t", "a", "l", "T", "o", "k", "e", "n", "s", "\"",
     ":", "3", "}" >>

\* JSON text of null (4 characters, accents folded to ASCII)
NullText ==
  << "n", "u", "l", "l" >>

\* JSON text of true (4 characters, accents folded to ASCII)
TrueText ==
  << "t", "r", "u", "e" >>

\* JSON text of false (5 characters, accents folded to ASCII)
FalseText ==
  << "f", "a", "l", "s", "e" >>

\* ------------------------------------------------------------------
\* JSON values of the upstream reply
\* ------------------------------------------------------------------

\* a JSON value as the relay sees it: its type, its text (strings), its number
\* (numbers, booleans as 0/1, arrays as their length)
JMissing == [t |-> "missing", s |-> << >>, n |-> 0]

JNull == [t |-> "null", s |-> << >>, n |-> 0]

JStr(text) == [t |-> "string", s |-> text, n |-> 0]

JNum(k) == [t |-> "number", s |-> << >>, n |-> k]

JBool(b) == [t |-> "bool", s |-> << >>, n |-> IF b THEN 1 ELSE 0]

JArr(len) == [t |-> "array", s |-> << >>, n |-> len]

JObj == [t |-> "object", s |-> << >>, n |-> 0]

\* JavaScript truthiness of a JSON value (the test !n8nResponse.output)
Truthy(v) ==
  CASE v.t = "string" -> v.s # << >>
    [] v.t = "number" -> v.n # 0
    [] v.t = "bool" -> v.n # 0
    [] v.t = "array" -> TRUE
    [] v.t = "object" -> TRUE
    [] OTHER -> FALSE

\* a source entry and a usage record an upstream reply may carry
Source1 == [title |-> "t", url |-> "u", snippet |-> "s"]

Usage1 == [promptTokens |-> 1, completionTokens |-> 2, totalTokens |-> 3]

\* the source entry and the usage record of the mock reply
MockSource ==
  [title |-> "Documentacion N8N", url |-> "https://docs.n8n.io/webhooks/",
   snippet |-> "Informacion sobre configuracion de webhooks en N8N"]

MockUsage == [promptTokens |-> 20, completionTokens |-> 50, totalTokens |-> 70]

\* the usage record of the repaired reply
ZeroUsage == [promptTokens |-> 0, completionTokens |-> 0, totalTokens |-> 0]

\* JSON.stringify of a JSON value (arrays of numbers 1, objects empty)
JValText(v) ==
  CASE v.t = "string" -> << "\"" >> \o v.s \o << "\"" >>
    [] v.t = "number" -> IF v.n = 0 THEN << "0" >> ELSE << "1" >>
    [] v.t = "bool" -> IF v.n = 0 THEN FalseText ELSE TrueText
    [] v.t = "null" -> NullText
    [] v.t = "array" -> IF v.n = 0 THEN << "[", "]" >> ELSE << "[", "1", "]" >>
    [] v.t = "object" -> << "{", "}" >>
    [] OTHER -> << >>

\* JSON.stringify of a sources array
SourcesText(srcs) == IF srcs = << >> THEN << "[", "]" >> ELSE << "[" >> \o Source1Text \o << "]" >>

\* the members of a reply object, in order, each as its JSON text
ReplyMembers(r) ==
  (IF r.output.t = "missing" THEN << >> ELSE << KeyOutput \o JValText(r.output) >>)
  \o (IF r.sources = None THEN << >> ELSE << KeySources \o SourcesText(r.sources[1]) >>)
  \o (IF r.usage = None THEN << >> ELSE << KeyUsage \o Usage1Text >>)

RECURSIVE JoinComma(_)
JoinComma(parts) ==
  IF parts = << >> THEN << >>
  ELSE IF Len(parts) = 1 THEN parts[1]
  ELSE parts[1] \o << "," >> \o JoinComma(Tail(parts))

\* JSON.stringify(n8nResponse)
Stringify(r) ==
  CASE r.kind = "null" -> NullText
    [] r.kind = "string" -> << "\"" >> \o r.text \o << "\"" >>
    [] r.kind = "number" -> << "1" >>
    [] r.kind = "array" -> << "[", "]" >>
    [] OTHER -> << "{" >> \o JoinComma(ReplyMembers(r)) \o << "}" >>

\* ------------------------------------------------------------------
\* Inputs of a turn
\* ------------------------------------------------------------------

Backends == {"absent", "python", "gemini", "chatgpt"}

\* a long user text: words of letters separated by spaces
LongInput == [i \in 1..LongInputLen |-> IF i % 10 = 0 THEN " " ELSE "a"]

\* the user texts of the model: every short text, "Hola" and a long text
ChatInputs == TextsOfLen(0, MaxInputLen) \cup {Hola, LongInput}

\* the topK and the temperature (in tenths) a request may give: none, 0 or more
TopKs == {None, Some(0), Some(1), Some(3)}

Temperatures == {None, Some(0), Some(7)}

\* the request bodies: unparseable, or a JSON object with chatInput, backend,
\* topK and temperature (every topK and temperature with the text "Hola")
RequestBodies ==
  { [valid |-> FALSE, chatInput |-> << >>, backend |-> "absent", topK |-> None,
     temperature |-> None] }
  \cup { [valid |-> TRUE, chatInput |-> c, backend |-> b, topK |-> None, temperature |-> None] :
           c \in ChatInputs, b \in Backends }
  \cup { [valid |-> TRUE, chatInput |-> Hola, backend |-> b, topK |-> k, temperature |-> t] :
           b \in Backends, k \in TopKs, t \in Temperatures }

\* process configurations: each variable unset (None) or set
Environments ==
  [N8N_BASE_URL : {None, Some(BaseUrlText)},
   N8N_WEBHOOK_PATH : {None, Some(DefaultPathText)},
   N8N_GEMINI_WEBHOOK_PATH : {None, Some(GeminiPathText)}]

\* outputs an upstream reply may carry: every short text, texts longer than one
\* window (one long word, two sentences, words), and values that are not strings
LongOutputs ==
  { Rep("a", LongWordLen),
    Rep("a", 9) \o << ".", " " >> \o Rep("a", LongWordLen),
    Rep("a", 9) \o << " " >> \o Rep("a", LongWordLen) \o << " ", "a" >> }

OutputValues ==
  { JStr(s) : s \in TextsOfLen(0, MaxOutLen) \cup LongOutputs }
  \cup { JMissing, JNull, JNum(0), JNum(1), JBool(FALSE), JBool(TRUE), JArr(0), JArr(1), JObj }

\* the JSON documents an upstream can answer with
Replies ==
  { [kind |-> "object", text |-> << >>, output |-> o, sources |-> s, usage |-> u] :
      o \in OutputValues, s \in {None, Some(<< >>), Some(<< Source1 >>)}, u \in {None, Some(Usage1)} }
  \cup { [kind |-> k, text |-> << >>, output |-> JMissing, sources |-> None, usage |-> None] :
           k \in {"null", "number", "array"} }
  \cup { [kind |-> "string", text |-> s, output |-> JMissing, sources |-> None, usage |-> None] :
           s \in {<< "a" >>, Rep("a", DumpLimit + 1)} }

\* the reply the relay works on before a reply has been received
NoReply == [output |-> JMissing, sources |-> None, usage |-> None]

NoBody ==
  [valid |-> FALSE, chatInput |-> << >>, backend |-> "absent", topK |-> None,
   temperature |-> None]

\* the body of a fetch that has not been issued
NoFetchBody == [chatInput |-> None, topK |-> None, temperature |-> None, backend |-> None]

\* ------------------------------------------------------------------
\* StreamEvent
\* ------------------------------------------------------------------

Connected ==
  [type |-> "connected", content |-> << >>, isLast |-> FALSE, sources |-> None, usage |-> None,
   error |-> ""]

Done ==
  [type |-> "done", content |-> << >>, isLast |-> FALSE, sources |-> None, usage |-> None,
   error |-> ""]

Error(message) ==
  [type |-> "error", content |-> << >>, isLast |-> FALSE, sources |-> None, usage |-> None,
   error |-> message]

Chunk(content, isLast, sources, usage) ==
  [type |-> "chunk", content |-> content, isLast |-> isLast, sources |-> sources, usage |-> usage,
   error |-> ""]

\* ------------------------------------------------------------------
\* The relay: POST /api/chat/send
\* ------------------------------------------------------------------

VARIABLES
  env,            \* process.env: the N8N configuration
  body,           \* the request body of the turn
  pc,             \* where the route is: idle, fetch, text, delay, closed, responded
  httpStatus,     \* status of the HTTP response (0: none yet)
  webhookUrl,     \* the resolved upstream URL
  fetchBody,      \* the body of the upstream call (a field is None when left out)
  upstreamCalls,  \* number of fetch calls issued to the upstream
  upstream,       \* what the upstream call came to
  n8nResponse,    \* the reply the chunks are taken from
  chunks,         \* the result of chunkText
  i,              \* index of the last chunk emitted
  events,         \* the events enqueued on the stream controller, in order
  closeCount,     \* number of controller.close() calls
  caught          \* message of the error the catch of start caught ("" when none)

relayVars ==
  << env, body, pc, httpStatus, webhookUrl, fetchBody, upstreamCalls, upstream, n8nResponse, chunks, i,
     events, closeCount, caught >>

\* the state of the client (StreamConsumer)
VARIABLES
  consumer,      \* the component: "handleSendMessage" or "handleSubmit"
  chat,          \* the current chat of the page: its backend, whether it has a chatbotId
  input,         \* the text of the input box
  isLoading,     \* the isLoading state
  messages,      \* the messages of the current chat
  error,         \* the error state of ChatInterface ("" for null)
  cpc,           \* where the handler is: idle, fetch, reading
  outcome,       \* how the last turn ended: none, refused, completed, failed
  turns,         \* number of turns started
  sent,          \* the events the relay emitted on the response body
  wire,          \* the bytes of the response body not yet read
  fullResponse,  \* the local fullResponse of handleSendMessage
  lastChunk,     \* the local lastChunk of handleSendMessage
  chunk,         \* the local chunk of the read loop: the bytes of the latest read
  received,      \* the events the read loop has parsed, in order
  ignored        \* number of calls of the handler that returned at its guard

clientVars ==
  << consumer, chat, input, isLoading, messages, error, cpc, outcome, turns, sent, wire,
     fullResponse, lastChunk, chunk, received, ignored >>

\* the state of one application of chunkText or of the reply validation
VARIABLES
  call,          \* the function applied and its arguments
  currentIndex,  \* the local currentIndex of chunkText
  pushed,        \* the local chunks of chunkText: the slices pushed so far
  returned,      \* whether the function has returned
  segments,      \* the array chunkText returned
  normalized     \* n8nResponse after the validation of the reply

callVars == << call, currentIndex, pushed, returned, segments, normalized >>

\* the state of the authentication module
VARIABLES
  authModule,    \* the module: "authService" (authService.ts) or "localAuth" (localAuth.js)
  users,         \* the users Map, in insertion order: records of id, username, passwordHash
  sessions,      \* the sessions Map: records of id, userId
  pending,       \* the calls of registerUser that wait for the hash of the password
  now,           \* Date.now()
  generated,     \* number of session ids generated so far
  authResult     \* the result the latest call returned

authVars == << authModule, users, sessions, pending, now, generated, authResult >>

\* the state of the page around its turns: the chat list and the upload
VARIABLES
  chats,            \* the chats state: records of id and messages, newest first
  currentChatId,    \* the currentChatId state: None for null, Some(id)
  isAuthenticated,  \* the isAuthenticated state
  isUploading       \* the isUploading state

pageVars == << chats, currentChatId, isAuthenticated, isUploading >>

\* messages of the errors the stream can carry
ErrNetwork == "fetch failed"

ErrBodyRead == "terminated"

ErrInvalidJson == "Invalid JSON response from N8N"

ErrNullReply == "Cannot read properties of null (reading 'output')"

ErrNotAString == "text.slice(...).trim is not a function"

\* mutant of n8nWebhookPath: every backend takes the default path
n8nWebhookPathDefaultOnly(e, backend) == e.N8N_WEBHOOK_PATH

\* the webhook path selected for a backend (lines 51-58)
n8nWebhookPath(e, backend) ==
  IF backend = "gemini" /\ e.N8N_GEMINI_WEBHOOK_PATH # None
  THEN e.N8N_GEMINI_WEBHOOK_PATH
  ELSE e.N8N_WEBHOOK_PATH

\* mutant of mockResponse: the mock text leaves the user text out
mockResponseNoInput(chatInput, url) ==
  [output |-> JStr(MockPrefix \o MockMiddle \o url \o MockSuffix),
   sources |-> Some(<< MockSource >>),
   usage |-> Some(MockUsage)]

\* the mock reply built when the upstream answers with a non-2xx status
mockResponse(chatInput, url) ==
  [output |-> JStr(MockPrefix \o chatInput \o MockMiddle \o url \o MockSuffix),
   sources |-> Some(<< MockSource >>),
   usage |-> Some(MockUsage)]

\* mutant of Normalize: the received payload is dumped whole
NormalizeUntruncated(r) ==
  LET out == IF r.kind = "object" THEN r.output ELSE JMissing
  IN  IF ~Truthy(out)
      THEN [output |-> JStr(RepairPrefix \o Stringify(r) \o << ".", ".", "." >>),
            sources |-> Some(<< >>),
            usage |-> Some(ZeroUsage)]
      ELSE [output |-> out, sources |-> r.sources, usage |-> r.usage]

\* the reply after "Validate response structure": repaired when output is falsy
Normalize(r) ==
  LET out == IF r.kind = "object" THEN r.output ELSE JMissing
  IN  IF ~Truthy(out)
      THEN [output |-> JStr(RepairPrefix \o substring0(Stringify(r), DumpLimit) \o << ".", ".", "." >>),
            sources |-> Some(<< >>),
            usage |-> Some(ZeroUsage)]
      ELSE [output |-> out, sources |-> r.sources, usage |-> r.usage]

\* chunkText applied to a value that JSON.parse produced: whether it throws
\* (an array with elements has slice but its result has no trim)
ChunkThrows(v) == v.t = "array" /\ v.n > 0

\* and what it returns otherwise (a value without a length skips the loop)
ChunksOf(v) == IF v.t = "string" THEN chunkText(v.s, ChunkSize) ELSE << >>

\* the chunk event of index k (0-based) of the emission loop
ChunkEvent(cs, k, resp) ==
  LET isLast == (k = Len(cs) - 1)
  IN  Chunk(cs[k + 1], isLast,
            IF isLast THEN resp.sources ELSE None,
            IF isLast THEN resp.usage ELSE None)

\* mutant of EmitFrom: the done event after the last chunk is left out
EmitFromNoDone(cs, k, resp) ==
  /\ caught' = caught
  /\ IF k >= Len(cs)
     THEN /\ events' = Append(events, Done)
          /\ closeCount' = closeCount + 1
          /\ pc' = "closed"
          /\ i' = i
     ELSE IF k = Len(cs) - 1
     THEN /\ events' = Append(events, ChunkEvent(cs, k, resp))
          /\ closeCount' = closeCount + 1
          /\ pc' = "closed"
          /\ i' = k
     ELSE /\ events' = Append(events, ChunkEvent(cs, k, resp))
          /\ closeCount' = closeCount
          /\ pc' = "delay"
          /\ i' = k

\* the emission loop run from index k up to its next await: the chunk of index
\* k, and after the last chunk the done event and the close of the finally
EmitFrom(cs, k, resp) ==
  /\ caught' = caught
  /\ IF k >= Len(cs)
     THEN /\ events' = Append(events, Done)
          /\ closeCount' = closeCount + 1
          /\ pc' = "closed"
          /\ i' = i
     ELSE IF k = Len(cs) - 1
     THEN /\ events' = events \o << ChunkEvent(cs, k, resp), Done >>
          /\ closeCount' = closeCount + 1
          /\ pc' = "closed"
          /\ i' = k
     ELSE /\ events' = Append(events, ChunkEvent(cs, k, resp))
          /\ closeCount' = closeCount
          /\ pc' = "delay"
          /\ i' = k

\* mutant of Fail: the error path falls through to the completion event
FailThenDone(message) ==
  /\ caught' = message
  /\ events' = events \o << Error(message), Done >>
  /\ closeCount' = closeCount + 1
  /\ pc' = "closed"

\* mutant of Fail: the stream is closed at the end of the try only, so the
\* error path leaves it open
FailWithoutClose(message) ==
  /\ caught' = message
  /\ events' = Append(events, Error(message))
  /\ closeCount' = closeCount
  /\ pc' = "closed"

\* the catch and finally of start: one error event, then the close
Fail(message) ==
  /\ caught' = message
  /\ events' = Append(events, Error(message))
  /\ closeCount' = closeCount + 1
  /\ pc' = "closed"

\* mutant of FetchBody: the fields of the request are passed on as they came
FetchBodyAsGiven(b) ==
  [chatInput |-> Some(b.chatInput),
   topK |-> b.topK,
   temperature |-> b.temperature,
   backend |-> IF b.backend = "absent" THEN None ELSE Some(b.backend)]

\* the body of the upstream call: chatInput, topK || 5, temperature || 0,
\* backend || 'python'
FetchBody(b) ==
  [chatInput |-> Some(b.chatInput),
   topK |-> IF b.topK = None \/ b.topK = Some(0) THEN Some(DefaultTopK) ELSE b.topK,
   temperature |->
     IF b.temperature = None \/ b.temperature = Some(0) THEN Some(DefaultTemperature)
     ELSE b.temperature,
   backend |-> IF b.backend = "absent" THEN Some("python") ELSE Some(b.backend)]

\* mutant of POST: the chatInput is not checked
POSTWithoutInputCheck(b) ==
  /\ pc = "idle"
  /\ body' = b
  /\ UNCHANGED << env, upstream, n8nResponse, chunks, i, closeCount, caught >>
  /\ IF ~b.valid
     THEN /\ httpStatus' = 500
          /\ pc' = "responded"
          /\ UNCHANGED << webhookUrl, fetchBody, upstreamCalls, events >>
     ELSE IF env.N8N_BASE_URL = None \/ n8nWebhookPath(env, b.backend) = None
     THEN /\ httpStatus' = 500
          /\ pc' = "responded"
          /\ UNCHANGED << webhookUrl, fetchBody, upstreamCalls, events >>
     ELSE /\ webhookUrl' = env.N8N_BASE_URL[1] \o n8nWebhookPath(env, b.backend)[1]
          /\ fetchBody' = FetchBody(b)
          /\ httpStatus' = 200
          /\ events' = Append(events, Connected)
          /\ upstreamCalls' = upstreamCalls + 1
          /\ pc' = "fetch"
  /\ UNCHANGED << clientVars, callVars, authVars, pageVars >>

\* mutant of POST: the configuration is not checked before the stream is opened
POSTWithoutConfigCheck(b) ==
  /\ pc = "idle"
  /\ body' = b
  /\ UNCHANGED << env, upstream, n8nResponse, chunks, i, closeCount, caught >>
  /\ IF ~b.valid
     THEN /\ httpStatus' = 500
          /\ pc' = "responded"
          /\ UNCHANGED << webhookUrl, fetchBody, upstreamCalls, events >>
     ELSE IF trim(b.chatInput) = << >>
     THEN /\ httpStatus' = 400
          /\ pc' = "responded"
          /\ UNCHANGED << webhookUrl, fetchBody, upstreamCalls, events >>
     ELSE /\ webhookUrl' =
               (IF env.N8N_BASE_URL = None THEN << >> ELSE env.N8N_BASE_URL[1])
               \o (IF n8nWebhookPath(env, b.backend) = None THEN << >>
                   ELSE n8nWebhookPath(env, b.backend)[1])
          /\ fetchBody' = FetchBody(b)
          /\ httpStatus' = 200
          /\ events' = Append(events, Connected)
          /\ upstreamCalls' = upstreamCalls + 1
          /\ pc' = "fetch"
  /\ UNCHANGED << clientVars, callVars, authVars, pageVars >>

\* POST up to the first await of start: validation, configuration, the
\* connected event and the upstream call
POST(b) ==
  /\ pc = "idle"
  /\ body' = b
  /\ UNCHANGED << env, upstream, n8nResponse, chunks, i, closeCount, caught >>
  /\ IF ~b.valid
     THEN /\ httpStatus' = 500
          /\ pc' = "responded"
          /\ UNCHANGED << webhookUrl, fetchBody, upstreamCalls, events >>
     ELSE IF trim(b.chatInput) = << >>
     THEN /\ httpStatus' = 400
          /\ pc' = "responded"
          /\ UNCHANGED << webhookUrl, fetchBody, upstreamCalls, events >>
     ELSE IF env.N8N_BASE_URL = None \/ n8nWebhookPath(env, b.backend) = None
     THEN /\ httpStatus' = 500
          /\ pc' = "responded"
          /\ UNCHANGED << webhookUrl, fetchBody, upstreamCalls, events >>
     ELSE /\ webhookUrl' = env.N8N_BASE_URL[1] \o n8nWebhookPath(env, b.backend)[1]
          /\ fetchBody' = FetchBody(b)
          /\ httpStatus' = 200
          /\ events' = Append(events, Connected)
          /\ upstreamCalls' = upstreamCalls + 1
          /\ pc' = "fetch"
  /\ UNCHANGED << clientVars, callVars, authVars, pageVars >>

\* the upstream call rejects (DNS failure, connection refused, TLS failure)
FetchRejects ==
  /\ pc = "fetch"
  /\ upstream' = "rejected"
  /\ Fail(ErrNetwork)
  /\ UNCHANGED << env, body, httpStatus, webhookUrl, fetchBody, upstreamCalls, n8nResponse, chunks, i >>
  /\ UNCHANGED << clientVars, callVars, authVars, pageVars >>

\* mutant of FetchNotOk: a non-2xx status is thrown instead of mocked
FetchNotOkThrows ==
  /\ pc = "fetch"
  /\ upstream' = "notok"
  /\ Fail("N8N webhook failed")
  /\ UNCHANGED << env, body, httpStatus, webhookUrl, fetchBody, upstreamCalls, n8nResponse, chunks, i >>
  /\ UNCHANGED << clientVars, callVars, authVars, pageVars >>

\* mutant of FetchNotOk: the call is issued once more before the mock reply
FetchNotOkRetries ==
  /\ pc = "fetch"
  /\ upstream' = "notok"
  /\ upstreamCalls' = upstreamCalls + 1
  /\ LET mock == mockResponse(body.chatInput, webhookUrl)
         cs == chunkText(mock.output.s, ChunkSize)
     IN  /\ n8nResponse' = mock
         /\ chunks' = cs
         /\ EmitFrom(cs, 0, mock)
  /\ UNCHANGED << env, body, httpStatus, webhookUrl, fetchBody >>
  /\ UNCHANGED << clientVars, callVars, authVars, pageVars >>

\* the upstream answers with a non-2xx status: the mock reply is streamed
FetchNotOk ==
  /\ pc = "fetch"
  /\ upstream' = "notok"
  /\ LET mock == mockResponse(body.chatInput, webhookUrl)
         cs == chunkText(mock.output.s, ChunkSize)
     IN  /\ n8nResponse' = mock
         /\ chunks' = cs
         /\ EmitFrom(cs, 0, mock)
  /\ UNCHANGED << env, body, httpStatus, webhookUrl, fetchBody, upstreamCalls >>
  /\ UNCHANGED << clientVars, callVars, authVars, pageVars >>

\* the upstream answers 2xx: the route awaits the body text
FetchOk ==
  /\ pc = "fetch"
  /\ upstream' = "ok"
  /\ pc' = "text"
  /\ UNCHANGED << env, body, httpStatus, webhookUrl, fetchBody, upstreamCalls, n8nResponse, chunks, i,
                  events, closeCount, caught >>
  /\ UNCHANGED << clientVars, callVars, authVars, pageVars >>

\* the body of the 2xx answer cannot be read
TextRejects ==
  /\ pc = "text"
  /\ upstream' = "unreadable"
  /\ Fail(ErrBodyRead)
  /\ UNCHANGED << env, body, httpStatus, webhookUrl, fetchBody, upstreamCalls, n8nResponse, chunks, i >>
  /\ UNCHANGED << clientVars, callVars, authVars, pageVars >>

\* the body of the 2xx answer is not JSON
TextInvalid ==
  /\ pc = "text"
  /\ upstream' = "invalid"
  /\ Fail(ErrInvalidJson)
  /\ UNCHANGED << env, body, httpStatus, webhookUrl, fetchBody, upstreamCalls, n8nResponse, chunks, i >>
  /\ UNCHANGED << clientVars, callVars, authVars, pageVars >>

\* the body of the 2xx answer is the JSON document r: validate, chunk, emit
TextJson(r) ==
  /\ pc = "text"
  /\ upstream' = "json"
  /\ IF r.kind = "null"
     THEN /\ Fail(ErrNullReply)
          /\ UNCHANGED << n8nResponse, chunks, i >>
     ELSE LET resp == Normalize(r)
          IN  /\ n8nResponse' = resp
              /\ IF ChunkThrows(resp.output)
                 THEN /\ Fail(ErrNotAString)
                      /\ UNCHANGED << chunks, i >>
                 ELSE /\ chunks' = ChunksOf(resp.output)
                      /\ EmitFrom(ChunksOf(resp.output), 0, resp)
  /\ UNCHANGED << env, body, httpStatus, webhookUrl, fetchBody, upstreamCalls >>
  /\ UNCHANGED << clientVars, callVars, authVars, pageVars >>

\* the 100 ms delay after a chunk that is not the last elapses
DelayElapses ==
  /\ pc = "delay"
  /\ EmitFrom(chunks, i + 1, n8nResponse)
  /\ UNCHANGED << env, body, httpStatus, webhookUrl, fetchBody, upstreamCalls, upstream, n8nResponse,
                  chunks >>
  /\ UNCHANGED << clientVars, callVars, authVars, pageVars >>

RelayInit ==
  /\ env \in Environments
  /\ body = NoBody
  /\ pc = "idle"
  /\ httpStatus = 0
  /\ webhookUrl = << >>
  /\ fetchBody = NoFetchBody
  /\ upstreamCalls = 0
  /\ upstream = "none"
  /\ n8nResponse = NoReply
  /\ chunks = << >>
  /\ i = 0
  /\ events = << >>
  /\ closeCount = 0
  /\ caught = ""

RelayNext ==
  \/ \E b \in RequestBodies : POST(b)
  \/ FetchRejects
  \/ FetchNotOk
  \/ FetchOk
  \/ TextRejects
  \/ TextInvalid
  \/ \E r \in Replies : TextJson(r)
  \/ DelayElapses

\* the whole stream of a turn that meets no failure: Connected, the chunk
\* events of the emission loop, Done
RelayStream(cs, resp) ==
  << Connected >> \o [k \in 1..Len(cs) |-> ChunkEvent(cs, k - 1, resp)] \o << Done >>

\* ------------------------------------------------------------------
\* The wire: the bytes of the event stream
\* ------------------------------------------------------------------

\* The body of the response is a sequence of symbols, each a run of bytes that
\* a network read may end after: the record of the event of index k is
\*   "da" "ta:" " " <first half of the JSON> <second half of the JSON> "\n" "\n"
Sym(sym, k) == [sym |-> sym, k |-> k]

\* encoder.encode(`data: ${JSON.stringify(eventData)}\n\n`) for the event of index k
Record(k) ==
  << Sym("da", 0), Sym("ta:", 0), Sym("sp", 0), Sym("j1", k), Sym("j2", k), Sym("nl", 0),
     Sym("nl", 0) >>

RECURSIVE EncodeFrom(_, _)
EncodeFrom(k, n) == IF k > n THEN << >> ELSE Record(k) \o EncodeFrom(k + 1, n)

\* the bytes of a stream of n events
Encode(n) == EncodeFrom(1, n)

\* the body of a JSON (non-stream) response: {"error": ...}
JsonErrorBody == << Sym("other", 0) >>

\* String.prototype.split('\n')
RECURSIVE SplitFrom(_, _)
SplitFrom(read, line) ==
  IF read = << >> THEN << line >>
  ELSE IF Head(read).sym = "nl" THEN << line >> \o SplitFrom(Tail(read), << >>)
  ELSE SplitFrom(Tail(read), Append(line, Head(read)))

\* mutant of SplitLines: only the first line of the read is kept
SplitLinesFirst(read) == << Head(SplitFrom(read, << >>)) >>

SplitLines(read) == SplitFrom(read, << >>)

RECURSIVE TrimSpStart(_)
TrimSpStart(line) ==
  IF line # << >> /\ Head(line).sym = "sp" THEN TrimSpStart(Tail(line)) ELSE line

RECURSIVE TrimSpEnd(_)
TrimSpEnd(line) ==
  IF line # << >> /\ line[Len(line)].sym = "sp"
  THEN TrimSpEnd(SubSeq(line, 1, Len(line) - 1))
  ELSE line

\* JSON.parse of a run of bytes: the index of the event it is the whole JSON
\* text of (surrounding spaces allowed), 0 when it throws a SyntaxError
JsonParse(bytes) ==
  LET t == TrimSpEnd(TrimSpStart(bytes))
  IN  IF Len(t) = 2 /\ t[1].sym = "j1" /\ t[2].sym = "j2" /\ t[1].k = t[2].k THEN t[1].k ELSE 0

\* ------------------------------------------------------------------
\* StreamConsumer: handleSendMessage (multi-chat page) and handleSubmit
\* (ChatInterface component)
\* ------------------------------------------------------------------

\* number of turns a client runs
MaxTurns == 1

\* calls of the send handler that return at its guard
MaxIgnored == 1

\* t('error'), the text of the message the page shows when a turn fails
TError == << "E", "r", "r", "o", "r" >>

\* the message the page answers with when a python chat has no document yet
NeedPdf == << "P", "D", "F" >>

Message(role, content, sources, usage) ==
  [role |-> role, content |-> content, sources |-> sources, usage |-> usage]

\* the event a parsed line stands for
EventAt(k) == sent[k]

\* the index of the event a line of a read parses to, 0 when the line is skipped
\* (no data: prefix, nothing after it) or JSON.parse throws
ParseLine(c, line) ==
  IF c = "handleSendMessage"
  THEN IF Len(line) >= 2 /\ line[1].sym = "da" /\ line[2].sym = "ta:"
       THEN JsonParse(SubSeq(line, 3, Len(line)))
       ELSE 0
  ELSE IF Len(line) >= 3 /\ line[1].sym = "da" /\ line[2].sym = "ta:" /\ line[3].sym = "sp"
       THEN JsonParse(SubSeq(line, 4, Len(line)))
       ELSE 0

\* the chunk branch of handleSendMessage: fullResponse grows and becomes the
\* content of the trailing assistant message, which is created when missing
ChunkSendMessage(st, e) ==
  LET full == st.fullResponse \o e.content
      n == Len(st.messages)
  IN  [st EXCEPT
         !.fullResponse = full,
         !.messages =
           IF n > 0 /\ st.messages[n].role = "assistant"
           THEN [st.messages EXCEPT ![n].content = full]
           ELSE Append(st.messages, Message("assistant", full, None, None))]

\* the chunk branch of handleSubmit: the content is appended to the trailing
\* assistant message, sources and usage overwrite when present
ChunkSubmit(st, e) ==
  LET n == Len(st.messages)
  IN  IF n > 0 /\ st.messages[n].role = "assistant"
      THEN [st EXCEPT
              !.messages[n].content = st.messages[n].content \o e.content,
              !.messages[n].sources = IF e.sources # None THEN e.sources ELSE @,
              !.messages[n].usage = IF e.usage # None THEN e.usage ELSE @]
      ELSE st

\* the body of the try of one line: a parsed chunk updates the message; the
\* Error thrown for a parsed error event is caught by the catch (parseError)
\* of the same try, as a SyntaxError is, and the loop goes on
HandleLine(c, st, line) ==
  LET k == ParseLine(c, line)
  IN  IF k = 0 THEN st
      ELSE LET e == EventAt(k)
               st1 == [st EXCEPT !.received = Append(@, e)]
           IN  IF e.type = "chunk"
               THEN IF c = "handleSendMessage" THEN ChunkSendMessage(st1, e) ELSE ChunkSubmit(st1, e)
               ELSE st1

\* mutant of HandleLines: a line that does not parse ends the processing of the read
RECURSIVE HandleLinesFatal(_, _, _)
HandleLinesFatal(c, st, lines) ==
  IF lines = << >> THEN st
  ELSE IF Head(lines) # << >> /\ ParseLine(c, Head(lines)) = 0 THEN st
  ELSE HandleLinesFatal(c, HandleLine(c, st, Head(lines)), Tail(lines))

\* the for loop over the lines of a read
RECURSIVE HandleLines(_, _, _)
HandleLines(c, st, lines) ==
  IF lines = << >> THEN st ELSE HandleLines(c, HandleLine(c, st, Head(lines)), Tail(lines))

\* chunk.includes('data: {"type": "done"}')
IncludesDone(read) ==
  \E p \in 1..(Len(read) - 4) :
    /\ read[p].sym = "da" /\ read[p + 1].sym = "ta:" /\ read[p + 2].sym = "sp"
    /\ read[p + 3].sym = "j1" /\ read[p + 4].sym = "j2" /\ read[p + 3].k = read[p + 4].k
    /\ EventAt(read[p + 3].k).type = "done"

\* mutant of FailureBranch: the handler has no finally, isLoading stays set
FailureBranchStillLoading(msgs, message) ==
  /\ messages' =
       IF consumer = "handleSendMessage"
       THEN Append(msgs, Message("assistant", TError, None, None))
       ELSE IF msgs # << >> /\ msgs[Len(msgs)].role = "assistant" /\ msgs[Len(msgs)].content = << >>
            THEN SubSeq(msgs, 1, Len(msgs) - 1)
            ELSE msgs
  /\ error' = IF consumer = "handleSubmit" THEN message ELSE error
  /\ isLoading' = isLoading
  /\ outcome' = "failed"
  /\ cpc' = "idle"

\* the catch of the handler: the page appends the error message; ChatInterface
\* sets error and drops a trailing empty assistant message
FailureBranch(msgs, message) ==
  /\ messages' =
       IF consumer = "handleSendMessage"
       THEN Append(msgs, Message("assistant", TError, None, None))
       ELSE IF msgs # << >> /\ msgs[Len(msgs)].role = "assistant" /\ msgs[Len(msgs)].content = << >>
            THEN SubSeq(msgs, 1, Len(msgs) - 1)
            ELSE msgs
  /\ error' = IF consumer = "handleSubmit" THEN message ELSE error
  /\ isLoading' = FALSE
  /\ outcome' = "failed"
  /\ cpc' = "idle"

\* the user types into the input box
Type(text) ==
  /\ cpc = "idle"
  /\ input # text
  /\ input' = text
  /\ UNCHANGED << ignored, consumer, chat, isLoading, messages, error, cpc, outcome, turns, sent, wire,
                  fullResponse, lastChunk, chunk, received >>
  /\ UNCHANGED << relayVars, callVars, authVars, pageVars >>

\* mutant of CanSend: the guard does not look at the input
CanSendBlank == ~isLoading

\* the guard of the handler: if (!input.trim() || isLoading) return (the page
\* of handleSendMessage always has a current chat here)
CanSend == trim(input) # << >> /\ ~isLoading

\* the handler is called and returns at its guard
SendIgnored ==
  /\ ~CanSend
  /\ ignored < MaxIgnored
  /\ ignored' = ignored + 1
  /\ UNCHANGED << consumer, chat, input, isLoading, messages, error, cpc, outcome, turns, sent,
                  wire, fullResponse, lastChunk, chunk, received >>
  /\ UNCHANGED << relayVars, callVars, authVars, pageVars >>

\* the handler up to its fetch: the guard, the python check of the page, the
\* user message, the cleared input, isLoading
Send ==
  /\ CanSend
  /\ turns < MaxTurns
  /\ turns' = turns + 1
  /\ input' = << >>
  /\ sent' = << >>
  /\ wire' = << >>
  /\ received' = << >>
  /\ fullResponse' = << >>
  /\ lastChunk' = FALSE
  /\ chunk' = << >>
  /\ UNCHANGED << ignored, consumer, chat >>
  /\ IF consumer = "handleSendMessage" /\ chat.backend = "python" /\ ~chat.chatbotId
     THEN /\ messages' = messages \o << Message("user", input, None, None),
                                        Message("assistant", NeedPdf, None, None) >>
          /\ outcome' = "refused"
          /\ UNCHANGED << isLoading, error, cpc >>
     ELSE /\ messages' =
               Append(messages,
                      Message("user", IF consumer = "handleSubmit" THEN trim(input) ELSE input,
                              None, None))
          /\ isLoading' = TRUE
          /\ error' = ""
          /\ outcome' = "none"
          /\ cpc' = "fetch"
  /\ UNCHANGED << relayVars, callVars, authVars, pageVars >>

\* the fetch of /api/chat/send rejects
ClientFetchRejects ==
  /\ cpc = "fetch"
  /\ FailureBranch(messages, "Failed to fetch")
  /\ UNCHANGED << ignored, consumer, chat, input, turns, sent, wire, fullResponse, lastChunk, chunk, received >>
  /\ UNCHANGED << relayVars, callVars, authVars, pageVars >>

\* the response has no body
ResponseNoBody ==
  /\ cpc = "fetch"
  /\ FailureBranch(messages, "No response body")
  /\ UNCHANGED << ignored, consumer, chat, input, turns, sent, wire, fullResponse, lastChunk, chunk, received >>
  /\ UNCHANGED << relayVars, callVars, authVars, pageVars >>

\* the relay answers with a JSON error response (400 or 500) and no stream:
\* handleSubmit throws on !response.ok, handleSendMessage reads the body
ResponseJson ==
  /\ cpc = "fetch"
  /\ IF consumer = "handleSubmit"
     THEN /\ FailureBranch(messages, "Failed to send message")
          /\ UNCHANGED wire
     ELSE /\ wire' = JsonErrorBody
          /\ cpc' = "reading"
          /\ UNCHANGED << messages, error, isLoading, outcome >>
  /\ UNCHANGED << ignored, consumer, chat, input, turns, sent, fullResponse, lastChunk, chunk, received >>
  /\ UNCHANGED << relayVars, callVars, authVars, pageVars >>

\* the relay answers with the event stream evs; handleSubmit opens an empty
\* assistant message
ResponseStream(evs) ==
  /\ cpc = "fetch"
  /\ sent' = evs
  /\ wire' = Encode(Len(evs))
  /\ messages' =
       IF consumer = "handleSubmit"
       THEN Append(messages, Message("assistant", << >>, None, None))
       ELSE messages
  /\ cpc' = "reading"
  /\ UNCHANGED << ignored, consumer, chat, input, isLoading, error, outcome, turns, fullResponse,
                  lastChunk, chunk, received >>
  /\ UNCHANGED << relayVars, callVars, authVars, pageVars >>

\* reader.read() returns the next n bytes: the read is decoded, split into
\* lines and every line handled; nothing is kept for the next read
Read(n) ==
  /\ cpc = "reading"
  /\ n \in 1..Len(wire)
  /\ LET read == SubSeq(wire, 1, n)
         st == HandleLines(consumer,
                           [messages |-> messages, fullResponse |-> fullResponse,
                            received |-> received],
                           SplitLines(read))
     IN  /\ wire' = SubSeq(wire, n + 1, Len(wire))
         /\ messages' = st.messages
         /\ fullResponse' = st.fullResponse
         /\ received' = st.received
         /\ chunk' = read
         /\ lastChunk' = (lastChunk \/ (consumer = "handleSendMessage" /\ IncludesDone(read)))
  /\ UNCHANGED << ignored, consumer, chat, input, isLoading, error, cpc, outcome, turns, sent >>
  /\ UNCHANGED << relayVars, callVars, authVars, pageVars >>

\* reader.read() returns done: the loop breaks and the finally ends the turn
\* (the local chunk of the loop is gone with it).
\* The body may end before all of its bytes have arrived (the relay or a proxy
\* drops the connection): the bytes left on the wire are never read.
ReadDone ==
  /\ cpc = "reading"
  /\ isLoading' = FALSE
  /\ outcome' = "completed"
  /\ cpc' = "idle"
  /\ chunk' = << >>
  /\ UNCHANGED << ignored, consumer, chat, input, messages, error, turns, sent, wire, fullResponse,
                  lastChunk, received >>
  /\ UNCHANGED << relayVars, callVars, authVars, pageVars >>

\* reader.read() rejects (the connection is reset)
ReadRejects ==
  /\ cpc = "reading"
  /\ FailureBranch(messages, "network error")
  /\ chunk' = << >>
  /\ UNCHANGED << ignored, consumer, chat, input, turns, sent, wire, fullResponse, lastChunk, received >>
  /\ UNCHANGED << relayVars, callVars, authVars, pageVars >>

\* the texts a user types
TypedTexts == {Hola, << " " >>}

\* the streams a relay answers with: those of replies of two chunks (two long
\* words, cut at the space between them), of one chunk and of no chunk, and
\* the stream of a failed turn
SampleOutputs ==
  { Rep("a", LongWordLen - 20) \o << " " >> \o Rep("a", 19), << "a" >>, << " " >> }

SampleReplies ==
  { [output |-> JStr(o), sources |-> Some(<< Source1 >>), usage |-> Some(Usage1)] :
      o \in SampleOutputs }

ClientStreams ==
  { RelayStream(chunkText(r.output.s, ChunkSize), r) : r \in SampleReplies }
  \cup { << Connected, Error(ErrNetwork) >> }

\* the sizes a network read can have: up to the whole body of the longest stream
ReadSizes ==
  LET lens == { Len(Encode(Len(evs))) : evs \in ClientStreams }
  IN  1..(CHOOSE m \in lens : \A l \in lens : l <= m)

\* the chats of the page (fresh, or restored from localStorage)
Chats ==
  { [backend |-> "python", chatbotId |-> FALSE], [backend |-> "python", chatbotId |-> TRUE],
    [backend |-> "gemini", chatbotId |-> FALSE] }

ClientInit ==
  /\ consumer \in {"handleSendMessage", "handleSubmit"}
  /\ chat \in IF consumer = "handleSendMessage" THEN Chats
              ELSE {[backend |-> "python", chatbotId |-> FALSE]}
  /\ input = << >>
  /\ isLoading = FALSE
  /\ messages = << >>
  /\ error = ""
  /\ cpc = "idle"
  /\ outcome = "none"
  /\ turns = 0
  /\ sent = << >>
  /\ wire = << >>
  /\ fullResponse = << >>
  /\ lastChunk = FALSE
  /\ chunk = << >>
  /\ received = << >>
  /\ ignored = 0

ClientNext ==
  \/ \E text \in TypedTexts : Type(text)
  \/ Send
  \/ ClientFetchRejects
  \/ ResponseNoBody
  \/ ResponseJson
  \/ \E evs \in ClientStreams : ResponseStream(evs)
  \/ \E n \in ReadSizes : Read(n)
  \/ ReadDone
  \/ ReadRejects

\* ------------------------------------------------------------------
\* chunkText and the validation of the reply, applied on their own
\* ------------------------------------------------------------------

\* the characters chunkText is applied over: a letter, a space, two sentence
\* ends and a line break
ChunkChar == {"a", " ", ".", "?", "\n"}

\* every text over ChunkChar up to MaxTextLen characters
ChunkTexts == UNION { [1..n -> ChunkChar] : n \in 0..MaxTextLen }

\* texts for the chunk size of the route: a sentence end past the first window
\* (offset 712), sentence ends inside and past it (offsets 650 and 712), a last
\* space at offset 690, and one long token
WindowTexts ==
  { Rep("a", 712) \o << "." >> \o Rep("a", 10),
    Rep("a", 650) \o << "." >> \o Rep("a", 61) \o << "." >> \o Rep("a", 10),
    Rep("a", 690) \o << " " >> \o Rep("a", 100),
    Rep("a", 2 * ChunkSize + 1) }

\* the reply argument of a call that takes none
NullReply == [kind |-> "null", text |-> << >>, output |-> JMissing, sources |-> None, usage |-> None]

ChunkTextCall(text, chunkSize) ==
  [fn |-> "chunkText", text |-> text, chunkSize |-> chunkSize, reply |-> NullReply]

ValidateCall(r) == [fn |-> "validate", text |-> << >>, chunkSize |-> 0, reply |-> r]

\* the applications: chunkText on every short text with every small chunk size
\* and on the long texts with the chunk size of the route; the validation on
\* every reply that parses to something other than null
Calls ==
  { ChunkTextCall(t, n) : t \in ChunkTexts, n \in 1..MaxChunkSize }
  \cup { ChunkTextCall(t, ChunkSize) : t \in WindowTexts }
  \cup { ValidateCall(r) : r \in { q \in Replies : q.kind # "null" } }

\* mutant of ChunkIterate: the next slice starts one character past the cut
ChunkIterateSkips ==
  /\ call.fn = "chunkText"
  /\ ~returned
  /\ currentIndex < Len(call.text)
  /\ LET endIndex == chunkEnd(call.text, call.chunkSize, currentIndex)
     IN  /\ pushed' = Append(pushed, trim(slice(call.text, currentIndex, endIndex)))
         /\ currentIndex' = endIndex + 1
  /\ UNCHANGED << call, returned, segments, normalized >>
  /\ UNCHANGED << relayVars, clientVars, authVars, pageVars >>

\* mutant of ChunkIterate: the slice is pushed and currentIndex stays
ChunkIterateStays ==
  /\ call.fn = "chunkText"
  /\ ~returned
  /\ currentIndex < Len(call.text)
  /\ LET endIndex == chunkEnd(call.text, call.chunkSize, currentIndex)
     IN  pushed' = Append(pushed, trim(slice(call.text, currentIndex, endIndex)))
  /\ UNCHANGED << call, currentIndex, returned, segments, normalized >>
  /\ UNCHANGED << relayVars, clientVars, authVars, pageVars >>

\* one iteration of the while loop of chunkText
ChunkIterate ==
  /\ call.fn = "chunkText"
  /\ ~returned
  /\ currentIndex < Len(call.text)
  /\ LET endIndex == chunkEnd(call.text, call.chunkSize, currentIndex)
     IN  /\ pushed' = Append(pushed, trim(slice(call.text, currentIndex, endIndex)))
         /\ currentIndex' = endIndex
  /\ UNCHANGED << call, returned, segments, normalized >>
  /\ UNCHANGED << relayVars, clientVars, authVars, pageVars >>

\* mutant of ChunkReturn: the empty slices are not filtered out
ChunkReturnUnfiltered ==
  /\ call.fn = "chunkText"
  /\ ~returned
  /\ currentIndex >= Len(call.text)
  /\ segments' = pushed
  /\ returned' = TRUE
  /\ UNCHANGED << call, currentIndex, pushed, normalized >>
  /\ UNCHANGED << relayVars, clientVars, authVars, pageVars >>

\* the loop of chunkText ends: the non-empty slices are returned
ChunkReturn ==
  /\ call.fn = "chunkText"
  /\ ~returned
  /\ currentIndex >= Len(call.text)
  /\ segments' = SelectSeq(pushed, LAMBDA c : Len(c) > 0)
  /\ returned' = TRUE
  /\ UNCHANGED << call, currentIndex, pushed, normalized >>
  /\ UNCHANGED << relayVars, clientVars, authVars, pageVars >>

\* "Validate response structure" applied to a parsed reply
Validate ==
  /\ call.fn = "validate"
  /\ ~returned
  /\ normalized' = Normalize(call.reply)
  /\ returned' = TRUE
  /\ UNCHANGED << call, currentIndex, pushed, segments >>
  /\ UNCHANGED << relayVars, clientVars, authVars, pageVars >>

\* no function is being applied
CallsAtRest ==
  /\ call = ValidateCall(NullReply)
  /\ currentIndex = 0
  /\ pushed = << >>
  /\ returned = TRUE
  /\ segments = << >>
  /\ normalized = NoReply

CallsInit ==
  /\ call \in Calls
  /\ currentIndex = 0
  /\ pushed = << >>
  /\ returned = FALSE
  /\ segments = << >>
  /\ normalized = NoReply

CallsNext ==
  \/ ChunkIterate
  \/ ChunkReturn
  \/ Validate

\* ------------------------------------------------------------------
\* Authentication: authService.ts and auth/localAuth.js
\* ------------------------------------------------------------------

\* the registrations callers ask for: two users, a second password for one of
\* them, and a blank username
Registrations ==
  { [username |-> "john_doe", password |-> "securePassword123"],
    [username |-> "jane_doe", password |-> "securePassword123"],
    [username |-> "john_doe", password |-> "hunter2"],
    [username |-> "", password |-> "securePassword123"] }

\* the logins callers try: the registrations (a wrong password for a user
\* registered with the other one) and a blank password
Logins == Registrations \cup {[username |-> "john_doe", password |-> ""]}

\* values of Date.now() during a run
MaxNow == 2

\* session ids generated during a run
MaxSessionIds == 2

\* hashPassword of authService.ts; bcrypt.hash of localAuth.js, taken as a
\* password hash that bcrypt.compare matches with its own password only
hashPassword(m, password) ==
  IF m = "authService" THEN << "hashed_", password >> ELSE << "$2b$10$", password >>

\* mutant of verifyPassword: every password is accepted
verifyPasswordAny(m, password, hash) == TRUE

\* verifyPassword of authService.ts; bcrypt.compare of localAuth.js
verifyPassword(m, password, hash) == hash = hashPassword(m, password)

\* the result of a call: its function and arguments, and what it returned
\* (message is the message of authService.ts, the error or message of localAuth.js)
AuthResult(op, username, password, sessionId, success, message, userId, newSession) ==
  [op |-> op, username |-> username, password |-> password, sessionId |-> sessionId,
   success |-> success, message |-> message, userId |-> userId, session |-> newSession]

NoAuthResult == AuthResult("none", "", "", 0, FALSE, "", 0, 0)

\* Map.has / Map.get on the users, keyed by username
userExists(us, username) == \E k \in 1..Len(us) : us[k].username = username

findUser(us, username) ==
  IF userExists(us, username)
  THEN Some(us[CHOOSE k \in 1..Len(us) : us[k].username = username])
  ELSE None

\* Map.set on the users: a key already present keeps its place and takes the new value
saveUser(us, user) ==
  IF userExists(us, user.username)
  THEN [k \in 1..Len(us) |-> IF us[k].username = user.username THEN user ELSE us[k]]
  ELSE Append(us, user)

findSession(ss, sessionId) ==
  IF \E x \in ss : x.id = sessionId
  THEN Some(CHOOSE x \in ss : x.id = sessionId)
  ELSE None

\* validateSession: the session, then the first user of the Map with its userId
validateSession(sessionId) ==
  LET session == findSession(sessions, sessionId)
      owners == IF session = None THEN {}
                ELSE { k \in 1..Len(users) : users[k].id = session[1].userId }
  IN  IF session = None \/ owners = {}
      THEN [valid |-> FALSE, userId |-> 0, username |-> ""]
      ELSE LET user == users[CHOOSE k \in owners : \A j \in owners : k <= j]
           IN  [valid |-> TRUE, userId |-> user.id, username |-> user.username]

\* what each module answers to a missing argument
MissingArgument(m, username, password) ==
  m = "localAuth" /\ (username = "" \/ password = "")

\* mutant of registerUser: the call goes on whatever the Map holds
registerUserUnchecked(username, password) ==
  /\ [username |-> username, password |-> password] \notin pending
  /\ pending' = pending \cup {[username |-> username, password |-> password]}
  /\ UNCHANGED << authModule, users, sessions, now, generated, authResult >>
  /\ UNCHANGED << relayVars, clientVars, callVars, pageVars >>

\* registerUser up to its await: the checks, then the hash of the password is awaited
registerUser(username, password) ==
  /\ IF MissingArgument(authModule, username, password)
     THEN /\ authResult' = AuthResult("registerUser", username, password, 0, FALSE,
                                      "Username and password are required", 0, 0)
          /\ UNCHANGED pending
     ELSE IF userExists(users, username)
     THEN /\ authResult' = AuthResult("registerUser", username, password, 0, FALSE,
                                      IF authModule = "authService" THEN "Username already exists"
                                      ELSE "User already exists", 0, 0)
          /\ UNCHANGED pending
     ELSE /\ [username |-> username, password |-> password] \notin pending
          /\ pending' = pending \cup {[username |-> username, password |-> password]}
          /\ UNCHANGED authResult
  /\ UNCHANGED << authModule, users, sessions, now, generated >>
  /\ UNCHANGED << relayVars, clientVars, callVars, pageVars >>

\* the callers of registerUser: handleRegister of the page refuses a blank
\* username or password before it calls authService.ts; localAuth.js is called
\* with whatever it is given
handleRegister(r) ==
  /\ authModule = "authService" => (r.username # "" /\ r.password # "")
  /\ registerUser(r.username, r.password)

\* registerUser after its await: the user is saved; localAuth.js also opens a session
registerUserSaves(r) ==
  /\ r \in pending
  /\ pending' = pending \ {r}
  /\ users' = saveUser(users, [id |-> now, username |-> r.username,
                               passwordHash |-> hashPassword(authModule, r.password)])
  /\ IF authModule = "localAuth"
     THEN /\ generated < MaxSessionIds
          /\ generated' = generated + 1
          /\ sessions' = sessions \cup {[id |-> generated + 1, userId |-> now]}
          /\ authResult' = AuthResult("registerUser", r.username, r.password, 0, TRUE, "",
                                      now, generated + 1)
     ELSE /\ authResult' = AuthResult("registerUser", r.username, r.password, 0, TRUE,
                                      "User registered successfully", now, 0)
          /\ UNCHANGED << sessions, generated >>
  /\ UNCHANGED << authModule, now >>
  /\ UNCHANGED << relayVars, clientVars, callVars, pageVars >>

\* authenticateUser of authService.ts, loginUser of localAuth.js, in one step:
\* after the await of the verification the function uses only the user it read
\* before it, and stores the session
authenticateUser(username, password) ==
  LET user == findUser(users, username)
  IN  /\ IF MissingArgument(authModule, username, password)
         THEN /\ authResult' = AuthResult("authenticateUser", username, password, 0, FALSE,
                                          "Username and password are required", 0, 0)
              /\ UNCHANGED << sessions, generated >>
         ELSE IF user = None \/ ~verifyPassword(authModule, password, user[1].passwordHash)
         THEN /\ authResult' = AuthResult("authenticateUser", username, password, 0, FALSE,
                                          "Invalid credentials", 0, 0)
              /\ UNCHANGED << sessions, generated >>
         ELSE /\ generated < MaxSessionIds
              /\ generated' = generated + 1
              /\ sessions' = sessions \cup {[id |-> generated + 1, userId |-> user[1].id]}
              /\ authResult' = AuthResult("authenticateUser", username, password, 0, TRUE,
                                          IF authModule = "authService"
                                          THEN "Authentication successful" ELSE "",
                                          user[1].id, generated + 1)
      /\ UNCHANGED << authModule, users, pending, now >>
      /\ UNCHANGED << relayVars, clientVars, callVars, pageVars >>

\* mutant of logoutUser: the session stays in the Map
logoutUserKeeps(sessionId) ==
  /\ authResult' = AuthResult("logoutUser", "", "", sessionId, findSession(sessions, sessionId) # None,
                              IF findSession(sessions, sessionId) = None THEN "Session not found"
                              ELSE "Logged out successfully", 0, 0)
  /\ UNCHANGED << authModule, users, sessions, pending, now, generated >>
  /\ UNCHANGED << relayVars, clientVars, callVars, pageVars >>

\* logoutUser: sessions.delete and its answer
logoutUser(sessionId) ==
  LET deleted == findSession(sessions, sessionId) # None
  IN  /\ sessions' = { x \in sessions : x.id # sessionId }
      /\ authResult' = AuthResult("logoutUser", "", "", sessionId, deleted,
                                  IF ~deleted THEN "Session not found"
                                  ELSE IF authModule = "authService" THEN "Logged out successfully"
                                  ELSE "Successfully logged out", 0, 0)
      /\ UNCHANGED << authModule, users, pending, now, generated >>
      /\ UNCHANGED << relayVars, clientVars, callVars, pageVars >>

\* a millisecond passes
Tick ==
  /\ now < MaxNow
  /\ now' = now + 1
  /\ UNCHANGED << authModule, users, sessions, pending, generated, authResult >>
  /\ UNCHANGED << relayVars, clientVars, callVars, pageVars >>

\* either module after it is loaded, never called
AuthInit ==
  /\ authModule \in {"authService", "localAuth"}
  /\ users = << >>
  /\ sessions = {}
  /\ pending = {}
  /\ now = 1
  /\ generated = 0
  /\ authResult = NoAuthResult

AuthNext ==
  \/ \E r \in Registrations : handleRegister(r)
  \/ \E r \in Registrations : registerUserSaves(r)
  \/ \E l \in Logins : authenticateUser(l.username, l.password)
  \/ \E sessionId \in 1..(MaxSessionIds + 1) : logoutUser(sessionId)
  \/ Tick

\* ------------------------------------------------------------------
\* The page around its turns: the file upload, Clear, the chat list
\* ------------------------------------------------------------------

\* messages a chat holds before the upload button stops adding to it
MaxMessages == 3

\* chats the list holds before the new-chat button stops adding to it
MaxChats == 3

\* the status messages of handleFileUpload
Subiendo == << "S", "u", "b" >>

Subido == << "O", "K" >>

ErrorAlSubir == << "K", "O" >>

\* the state of the page after construction
PageInit ==
  /\ chats = << >>
  /\ currentChatId = None
  /\ isAuthenticated = FALSE
  /\ isUploading = FALSE

\* handleFileUpload up to its fetch, called while a turn is loading, on the
\* chat of the turn: isUploading is set and the status message is appended to
\* the messages of the current chat
UploadStarts ==
  /\ consumer = "handleSendMessage"
  /\ isLoading
  /\ ~isUploading
  /\ Len(messages) < MaxMessages
  /\ isUploading' = TRUE
  /\ messages' = Append(messages, Message("assistant", Subiendo, None, None))
  /\ UNCHANGED << ignored, consumer, chat, input, isLoading, error, cpc, outcome, turns, sent, wire,
                  fullResponse, lastChunk, chunk, received >>
  /\ UNCHANGED << chats, currentChatId, isAuthenticated >>
  /\ UNCHANGED << relayVars, callVars, authVars >>

\* the fetch of the upload settles: a 2xx response appends the success message
\* (and, on the python backend, stores the chatbot_id of the result when there
\* is one), anything else appends the error message; the finally resets
\* isUploading
UploadSettles(ok, chatbotId) ==
  /\ isUploading
  /\ isUploading' = FALSE
  /\ messages' =
       Append(messages, Message("assistant", IF ok THEN Subido ELSE ErrorAlSubir, None, None))
  /\ chat' = IF ok /\ chat.backend = "python" /\ chatbotId
             THEN [chat EXCEPT !.chatbotId = TRUE]
             ELSE chat
  /\ UNCHANGED << ignored, consumer, input, isLoading, error, cpc, outcome, turns, sent, wire,
                  fullResponse, lastChunk, chunk, received >>
  /\ UNCHANGED << chats, currentChatId, isAuthenticated >>
  /\ UNCHANGED << relayVars, callVars, authVars >>

\* handleClearChat called while a turn is loading, on the chat of the turn
\* (the button is disabled while the chat has no message)
ClearMessages ==
  /\ consumer = "handleSendMessage"
  /\ isLoading
  /\ messages # << >>
  /\ messages' = << >>
  /\ UNCHANGED << ignored, consumer, chat, input, isLoading, error, cpc, outcome, turns, sent, wire,
                  fullResponse, lastChunk, chunk, received >>
  /\ UNCHANGED pageVars
  /\ UNCHANGED << relayVars, callVars, authVars >>

\* the streams the page is fed with: that of a reply of two chunks and that of
\* a failed turn
PageStreams ==
  { evs \in ClientStreams : Len(evs) = 4 \/ evs[Len(evs)].type = "error" }

\* the page during a turn: the header buttons stay enabled while it loads
PageNext ==
  \/ \E text \in TypedTexts : Type(text)
  \/ Send
  \/ ClientFetchRejects
  \/ ResponseNoBody
  \/ ResponseJson
  \/ \E evs \in PageStreams : ResponseStream(evs)
  \/ \E n \in ReadSizes : Read(n)
  \/ ReadDone
  \/ ReadRejects
  \/ UploadStarts
  \/ \E ok \in BOOLEAN, chatbotId \in BOOLEAN : UploadSettles(ok, chatbotId)
  \/ ClearMessages

\* a chat of the list
Chat(id, msgs) == [id |-> id, messages |-> msgs]

\* the chat lists the mount effect restores from localStorage: none, one chat
\* (empty, or with a turn in it), two chats (the older one empty, or with an
\* upload in it)
SavedChats ==
  LET turn == << Message("user", Hola, None, None), Message("assistant", NeedPdf, None, None) >>
      upload == << Message("assistant", Subiendo, None, None) >>
  IN  { << >>, << Chat(0, << >>) >>, << Chat(0, turn) >>,
        << Chat(0, turn), Chat(-1, << >>) >>, << Chat(0, turn), Chat(-1, upload) >> }

\* the ids of the chats of a run
ChatIds == (-1)..MaxNow

\* handleNewChat, its setChats applied to the list prev: the new chat is put
\* first and selected, the input is cleared
handleNewChat(prev) ==
  LET newChat == Chat(now, << >>)
  IN  /\ chats' = << newChat >> \o prev
      /\ currentChatId' = Some(newChat.id)
      /\ input' = << >>

\* the new-chat buttons of the header and of the sidebar
NewChat ==
  /\ isAuthenticated
  /\ Len(chats) < MaxChats
  /\ handleNewChat(chats)
  /\ UNCHANGED << isAuthenticated, isUploading >>
  /\ UNCHANGED << ignored, consumer, chat, isLoading, messages, error, cpc, outcome, turns, sent, wire,
                  fullResponse, lastChunk, chunk, received >>
  /\ UNCHANGED << relayVars, callVars, authVars >>

\* the effect on [isAuthenticated, chats.length]: an authenticated page with
\* no chat gets a new one
InitialChat ==
  /\ isAuthenticated
  /\ chats = << >>
  /\ handleNewChat(chats)
  /\ UNCHANGED << isAuthenticated, isUploading >>
  /\ UNCHANGED << ignored, consumer, chat, isLoading, messages, error, cpc, outcome, turns, sent, wire,
                  fullResponse, lastChunk, chunk, received >>
  /\ UNCHANGED << relayVars, callVars, authVars >>

\* a chat of the sidebar is clicked
handleSwitchChat(chatId) ==
  /\ isAuthenticated
  /\ \E k \in 1..Len(chats) : chats[k].id = chatId
  /\ currentChatId' = Some(chatId)
  /\ input' = << >>
  /\ UNCHANGED << chats, isAuthenticated, isUploading >>
  /\ UNCHANGED << ignored, consumer, chat, isLoading, messages, error, cpc, outcome, turns, sent, wire,
                  fullResponse, lastChunk, chunk, received >>
  /\ UNCHANGED << relayVars, callVars, authVars >>

\* mutant of handleDeleteChat: the deleted chat stays selected
handleDeleteChatKeepsCurrent(chatId) ==
  /\ isAuthenticated
  /\ \E k \in 1..Len(chats) : chats[k].id = chatId
  /\ chats' = SelectSeq(chats, LAMBDA c : c.id # chatId)
  /\ UNCHANGED << currentChatId, input >>
  /\ UNCHANGED << isAuthenticated, isUploading >>
  /\ UNCHANGED << ignored, consumer, chat, isLoading, messages, error, cpc, outcome, turns, sent, wire,
                  fullResponse, lastChunk, chunk, received >>
  /\ UNCHANGED << relayVars, callVars, authVars >>

\* the deletion of a chat of the sidebar is confirmed: the chat is filtered
\* out; when it was the current one the first remaining chat is selected, or a
\* new chat is made when none remains
handleDeleteChat(chatId) ==
  /\ isAuthenticated
  /\ \E k \in 1..Len(chats) : chats[k].id = chatId
  /\ LET remainingChats == SelectSeq(chats, LAMBDA c : c.id # chatId)
     IN  IF currentChatId = Some(chatId)
         THEN IF remainingChats # << >>
              THEN /\ chats' = remainingChats
                   /\ currentChatId' = Some(remainingChats[1].id)
                   /\ UNCHANGED input
              ELSE handleNewChat(remainingChats)
         ELSE /\ chats' = remainingChats
              /\ UNCHANGED << currentChatId, input >>
  /\ UNCHANGED << isAuthenticated, isUploading >>
  /\ UNCHANGED << ignored, consumer, chat, isLoading, messages, error, cpc, outcome, turns, sent, wire,
                  fullResponse, lastChunk, chunk, received >>
  /\ UNCHANGED << relayVars, callVars, authVars >>

\* Clear, on the chat list: the messages of the current chat are emptied (the
\* button is disabled while the current chat has no message)
handleClearChat ==
  /\ isAuthenticated
  /\ currentChatId # None
  /\ \E k \in 1..Len(chats) : Some(chats[k].id) = currentChatId /\ chats[k].messages # << >>
  /\ chats' = [k \in 1..Len(chats) |->
                 IF Some(chats[k].id) = currentChatId THEN Chat(chats[k].id, << >>) ELSE chats[k]]
  /\ UNCHANGED << currentChatId, isAuthenticated, isUploading >>
  /\ UNCHANGED clientVars
  /\ UNCHANGED << relayVars, callVars, authVars >>

\* the login form of the page accepts any non-blank username and password
handleLogin(l) ==
  /\ ~isAuthenticated
  /\ isAuthenticated' = (l.username # "" /\ l.password # "")
  /\ UNCHANGED << chats, currentChatId, isUploading >>
  /\ UNCHANGED clientVars
  /\ UNCHANGED << relayVars, callVars, authVars >>

\* Logout: the chats and the selection are dropped
handleLogout ==
  /\ isAuthenticated
  /\ isAuthenticated' = FALSE
  /\ chats' = << >>
  /\ currentChatId' = None
  /\ UNCHANGED isUploading
  /\ UNCHANGED clientVars
  /\ UNCHANGED << relayVars, callVars, authVars >>

\* the chat list of the page, its handlers called in any order
ChatsNext ==
  \/ NewChat
  \/ InitialChat
  \/ \E chatId \in ChatIds : handleSwitchChat(chatId)
  \/ \E chatId \in ChatIds : handleDeleteChat(chatId)
  \/ handleClearChat
  \/ \E l \in Logins : handleLogin(l)
  \/ handleLogout
  \/ Tick

\* ------------------------------------------------------------------
\* Specifications
\* ------------------------------------------------------------------

vars == << relayVars, clientVars, callVars, authVars, pageVars >>

\* the relay alone: no client runs
Init ==
  /\ RelayInit
  /\ ClientInit
  /\ consumer = "handleSubmit"
  /\ CallsAtRest
  /\ AuthInit
  /\ authModule = "authService"
  /\ PageInit

Next == RelayNext

Spec == Init /\ [][Next]_vars

\* a client alone, fed with streams of the relay: the relay is at rest
ClientSpecInit ==
  /\ RelayInit
  /\ env = [N8N_BASE_URL |-> Some(BaseUrlText), N8N_WEBHOOK_PATH |-> Some(DefaultPathText),
            N8N_GEMINI_WEBHOOK_PATH |-> None]
  /\ ClientInit
  /\ CallsAtRest
  /\ AuthInit
  /\ authModule = "authService"
  /\ PageInit

SpecClient == ClientSpecInit /\ [][ClientNext]_vars

\* the streams of the replies that fit one window, and of a failed turn
ShortStreams == { evs \in ClientStreams : Len(evs) <= 3 }

\* the client with its handler called in any state, fed with the short streams
ClientLiveNext ==
  \/ \E text \in TypedTexts : Type(text)
  \/ Send
  \/ SendIgnored
  \/ ClientFetchRejects
  \/ ResponseNoBody
  \/ ResponseJson
  \/ \E evs \in ShortStreams : ResponseStream(evs)
  \/ \E n \in ReadSizes : Read(n)
  \/ ReadDone
  \/ ReadRejects

FetchSettles ==
  /\ cpc = "fetch"
  /\ \/ ClientFetchRejects
     \/ ResponseNoBody
     \/ ResponseJson
     \/ \E evs \in ShortStreams : ResponseStream(evs)

BodyEnds ==
  /\ cpc = "reading"
  /\ (ReadDone \/ ReadRejects)

\* the client with its promises settling: the fetch of the turn resolves or
\* rejects, and the body of the response ends (the relay closes its stream in
\* the finally of start, or the connection breaks)
SpecClientLive ==
  /\ ClientSpecInit
  /\ [][ClientLiveNext]_vars
  /\ WF_vars(FetchSettles)
  /\ WF_vars(BodyEnds)

\* chunkText and the validation of the reply applied on their own: the relay
\* and the client are at rest
CallsSpecInit ==
  /\ RelayInit
  /\ env = [N8N_BASE_URL |-> Some(BaseUrlText), N8N_WEBHOOK_PATH |-> Some(DefaultPathText),
            N8N_GEMINI_WEBHOOK_PATH |-> None]
  /\ ClientInit
  /\ consumer = "handleSubmit"
  /\ CallsInit
  /\ AuthInit
  /\ authModule = "authService"
  /\ PageInit

SpecCalls == CallsSpecInit /\ [][CallsNext]_vars

\* the authentication module on its own, called in any order
AuthSpecInit ==
  /\ RelayInit
  /\ env = [N8N_BASE_URL |-> Some(BaseUrlText), N8N_WEBHOOK_PATH |-> Some(DefaultPathText),
            N8N_GEMINI_WEBHOOK_PATH |-> None]
  /\ ClientInit
  /\ consumer = "handleSubmit"
  /\ CallsAtRest
  /\ AuthInit
  /\ PageInit

SpecAuth == AuthSpecInit /\ [][AuthNext]_vars

\* the page of handleSendMessage during a turn, with its upload and Clear buttons
PageSpecInit ==
  /\ ClientSpecInit
  /\ consumer = "handleSendMessage"
  /\ chat.backend = "gemini" \/ chat.chatbotId

SpecPage == PageSpecInit /\ [][PageNext]_vars

\* the chat list of the page after its mount effect has restored the chats of
\* localStorage and selected the first one: no turn runs
ChatsSpecInit ==
  /\ RelayInit
  /\ env = [N8N_BASE_URL |-> Some(BaseUrlText), N8N_WEBHOOK_PATH |-> Some(DefaultPathText),
            N8N_GEMINI_WEBHOOK_PATH |-> None]
  /\ ClientInit
  /\ consumer = "handleSendMessage"
  /\ chat = [backend |-> "python", chatbotId |-> FALSE]
  /\ CallsAtRest
  /\ AuthInit
  /\ authModule = "authService"
  /\ chats \in SavedChats
  /\ currentChatId = IF chats # << >> THEN Some(chats[1].id) ELSE None
  /\ isAuthenticated \in BOOLEAN
  /\ isUploading = FALSE

SpecChats == ChatsSpecInit /\ [][ChatsNext]_vars


\* ------------------------------------------------------------------
\* Properties of the relay
\* ------------------------------------------------------------------

Terminal == {"done", "error"}

\* the positions of the events of a given type
EventsOfType(type) == { k \in 1..Len(events) : events[k].type = type }

\* the turn runs on the primary backend (python, also when backend is absent)
PrimaryBackend == body.backend \in {"absent", "python"}

\* the stream of the turn is complete
StreamClosed == pc = "closed"

\* the events are Connected, one or more Chunk, Done
ConnectedChunksDone ==
  /\ Len(events) >= 3
  /\ events[1] = Connected
  /\ events[Len(events)] = Done
  /\ \A k \in 2..(Len(events) - 1) : events[k].type = "chunk"

\* C1: every opened event stream starts with its only Connected event, carries
\* only Chunk events after it, and once closed ends with its only terminal
\* event (Done or Error), whatever the backend and the upstream outcome.
C1_EventOrdering ==
  /\ (httpStatus = 200) => (events # << >> /\ events[1] = Connected)
  /\ (httpStatus # 200) => events = << >>
  /\ \A k \in 2..Len(events) : events[k].type # "connected"
  /\ \A k \in 1..(Len(events) - 1) : events[k].type \notin Terminal
  /\ \A k \in 2..(Len(events) - 1) : events[k].type = "chunk"
  /\ StreamClosed => (Len(events) >= 2 /\ events[Len(events)].type \in Terminal)

\* a closed stream with two chunks between Connected and Done
C1_Witness ==
  /\ StreamClosed
  /\ Len(events) = 4
  /\ events[4] = Done
  /\ events[2].type = "chunk"

\* C2: a turn whose upstream answered 2xx with a JSON document streams exactly
\* Connected, Chunk*, Done, the chunks being the chunker's output in order,
\* isLast set on the final chunk only and sources/usage on no other chunk.
C2_SuccessfulTurnOrdering ==
  (StreamClosed /\ upstream = "json") =>
    LET n == Len(events)
    IN  /\ n = Len(chunks) + 2
        /\ events[1] = Connected
        /\ events[n] = Done
        /\ \A k \in 2..(n - 1) :
             /\ events[k].type = "chunk"
             /\ events[k].content = chunks[k - 1]
             /\ events[k].isLast = (k = n - 1)
             /\ (k < n - 1) => (events[k].sources = None /\ events[k].usage = None)

\* C6: once the catch of start has caught a failure the stream is closed and
\* holds exactly one Error event, carrying the failure's message, as its last
\* event: nothing is emitted after an Error.
C6_FailureEmitsSingleError ==
  /\ \A k \in EventsOfType("error") : k = Len(events) /\ StreamClosed
  /\ (caught # "") =>
       /\ StreamClosed
       /\ Cardinality(EventsOfType("error")) = 1
       /\ events[Len(events)] = Error(caught)
       /\ EventsOfType("done") = {}

\* the failure raised by chunking a reply whose output is not a string
C6_Witness == StreamClosed /\ caught = ErrNotAString /\ upstream = "json"

\* C7: on gemini and chatgpt an upstream non-2xx answer or a rejected upstream
\* call yields no Error event but the chunks of the fallback reply, whose output
\* embeds the user text, followed by Done.
C7_NonPrimaryFallback ==
  (StreamClosed /\ body.backend \in {"gemini", "chatgpt"} /\ upstream \in {"rejected", "notok"}) =>
    /\ EventsOfType("error") = {}
    /\ ConnectedChunksDone
    /\ n8nResponse = mockResponse(body.chatInput, webhookUrl)
    /\ Contains(n8nResponse.output.s, body.chatInput)

C9_FaultInjection ==
  (StreamClosed /\ PrimaryBackend /\ upstream = "notok") =>
    /\ ConnectedChunksDone
    /\ LET last == events[Len(events) - 1]
       IN  /\ Contains(last.content, body.chatInput)
           /\ last.sources # None
           /\ Len(last.sources[1]) = 1
           /\ last.usage # None
           /\ last.usage[1].totalTokens = 70

\* C9 as amended: the final chunk contains the user text when the fallback text
\* fits one window (at most ChunkSize characters), where it is the only chunk.
C9_FaultInjectionAmended ==
  (StreamClosed /\ PrimaryBackend /\ upstream = "notok") =>
    /\ ConnectedChunksDone
    /\ LET last == events[Len(events) - 1]
       IN  /\ last.sources # None
           /\ Len(last.sources[1]) = 1
           /\ last.usage # None
           /\ last.usage[1].totalTokens = 70
           /\ (Len(n8nResponse.output.s) <= ChunkSize) =>
                (Len(events) = 3 /\ Contains(last.content, body.chatInput))

\* the spec's example: the user text "Hola" on the default backend
C9_Witness ==
  /\ StreamClosed
  /\ PrimaryBackend
  /\ upstream = "notok"
  /\ body.chatInput = Hola
  /\ Len(events) = 3

\* C10: whatever JSON document the upstream answers with a 2xx status, the turn
\* ends with Done after at least one non-empty chunk and carries no Error event.
C10_NormalizerNeverThrows ==
  (StreamClosed /\ upstream = "json") =>
    /\ events[Len(events)] = Done
    /\ EventsOfType("error") = {}
    /\ \E k \in EventsOfType("chunk") : events[k].content # << >>

\* the turn was made with the base URL or the resolved webhook path unset
ConfigMissing == env.N8N_BASE_URL = None \/ n8nWebhookPath(env, body.backend) = None

\* C16: controller.close() is called exactly once on every path of a turn that
\* opened a stream (real reply, fallback reply, Error), never on a turn that
\* opened none, and no event is enqueued once the stream is closed.
C16_ClosedExactlyOnce ==
  /\ [](/\ closeCount <= 1
        /\ StreamClosed <=> (closeCount = 1)
        /\ (httpStatus # 200) => (closeCount = 0))
  /\ [][(closeCount >= 1) => (events' = events /\ closeCount' = closeCount)]_vars

\* a stream closed on the fallback path, which leaves the try with a return
C16_Witness == StreamClosed /\ closeCount = 1 /\ upstream = "notok" /\ caught = ""

\* C17: a chat turn made while the base URL or the resolved webhook path is
\* unset is answered with HTTP 500 and no stream: no event is enqueued and no
\* upstream call is made (whatever the body, no stream is opened then).
C17_ConfigErrorPrecedesStream ==
  (pc # "idle" /\ ConfigMissing) =>
    /\ pc = "responded"
    /\ httpStatus # 200
    /\ events = << >>
    /\ upstreamCalls = 0
    /\ closeCount = 0
    /\ (body.valid /\ trim(body.chatInput) # << >>) => httpStatus = 500

\* a gemini turn answered 500 with the base URL set and no webhook path set
C17_Witness ==
  /\ pc = "responded"
  /\ httpStatus = 500
  /\ body.valid
  /\ body.backend = "gemini"
  /\ env.N8N_BASE_URL # None
  /\ ConfigMissing

\* C18: a turn makes one upstream call when its stream is opened and none
\* otherwise, never a second one; Connected is on the stream when the call is
\* issued, and while the call or the reading of its answer is pending the
\* stream holds no Chunk.
C18_SingleUpstreamCall ==
  /\ upstreamCalls <= 1
  /\ (httpStatus = 200) <=> (upstreamCalls = 1)
  /\ (upstreamCalls = 1) => (events # << >> /\ events[1] = Connected)
  /\ (pc \in {"fetch", "text"}) => events = << Connected >>
  /\ (EventsOfType("chunk") # {}) => upstream \in {"notok", "json"}

\* a turn on the real reply that has emitted its chunks after its one call
C18_Witness ==
  /\ StreamClosed
  /\ upstream = "json"
  /\ upstreamCalls = 1
  /\ Cardinality(EventsOfType("chunk")) >= 2

\* C23: the upstream URL of a turn is the base URL followed by the gemini path
\* when the backend is gemini and that path is configured, and by the default
\* path otherwise: python, chatgpt and an absent backend always go to the
\* default path, whatever the configuration.
C23_BackendPathResolution ==
  (httpStatus = 200) =>
    /\ env.N8N_BASE_URL # None
    /\ IF body.backend = "gemini" /\ env.N8N_GEMINI_WEBHOOK_PATH # None
       THEN webhookUrl = env.N8N_BASE_URL[1] \o env.N8N_GEMINI_WEBHOOK_PATH[1]
       ELSE /\ env.N8N_WEBHOOK_PATH # None
            /\ webhookUrl = env.N8N_BASE_URL[1] \o env.N8N_WEBHOOK_PATH[1]
    /\ (body.backend \in {"absent", "python", "chatgpt"}) =>
         webhookUrl = BaseUrlText \o DefaultPathText

\* a gemini turn sent to the gemini path while the default path is set as well
C23_Witness ==
  /\ httpStatus = 200
  /\ body.backend = "gemini"
  /\ env.N8N_WEBHOOK_PATH # None
  /\ webhookUrl = BaseUrlText \o GeminiPathText

C37_BlankInputRejected ==
  (pc # "idle" /\ body.valid /\ trim(body.chatInput) = << >>) =>
    /\ pc = "responded"
    /\ httpStatus = 400
    /\ upstreamCalls = 0
    /\ fetchBody = NoFetchBody
    /\ events = << >>
    /\ closeCount = 0

\* a whitespace-only chatInput answered 400 while the base URL is unset
C37_Witness ==
  /\ pc = "responded"
  /\ httpStatus = 400
  /\ body.valid
  /\ body.chatInput = << " " >>
  /\ env.N8N_BASE_URL = None

\* C34: in a stream that ended with Done for a reply (normalized, or the mock)
\* that carries sources or usage, exactly one Chunk event carries sources or
\* usage, and they are those of the reply.
C34_SourcesNeverDropped ==
  (/\ events # << >>
   /\ events[Len(events)] = Done
   /\ (n8nResponse.sources # None \/ n8nResponse.usage # None)) =>
    LET carriers == { k \in 1..Len(events) :
                        /\ events[k].type = "chunk"
                        /\ (events[k].sources # None \/ events[k].usage # None) }
    IN  /\ Cardinality(carriers) = 1
        /\ \A k \in carriers : /\ events[k].sources = n8nResponse.sources
                                /\ events[k].usage = n8nResponse.usage

\* ------------------------------------------------------------------
\* Properties of the stream consumers
\* ------------------------------------------------------------------

\* a turn that got an event stream has ended
StreamTurnEnded == cpc = "idle" /\ turns > 0 /\ outcome # "none" /\ sent # << >>

\* C3: however the bytes of the stream are split into reads, once all of them
\* have been read the consumer has parsed exactly the events the relay sent, in
\* order, none lost and none twice.
C3_FragmentationTolerance == (sent # << >> /\ wire = << >>) => received = sent

\* C4: a turn in which the consumer parsed an Error event ends in the failure
\* branch, and no event is parsed after the Error.
C4_ErrorSurfaced ==
  /\ \A k \in 1..Len(received) : received[k].type = "error" => k = Len(received)
  /\ (StreamTurnEnded /\ \E k \in 1..Len(received) : received[k].type = "error") =>
       outcome = "failed"

\* C5: a turn whose stream ended before the consumer parsed a Done or an Error
\* event ends in the failure branch, not as a completed turn.
C5_AbruptClose ==
  (StreamTurnEnded /\ \A k \in 1..Len(received) : received[k].type \notin Terminal) =>
    outcome = "failed"

\* the chunk events the read loop has parsed, in order
ReceivedChunks == SelectSeq(received, LAMBDA e : e.type = "chunk")

\* the sources (field "sources") or the usage (field "usage") a sequence of
\* chunks leaves on a message that overwrites them when a chunk carries them
Carried(cs, field) ==
  LET ks == { k \in 1..Len(cs) : cs[k][field] # None }
  IN  IF ks = {} THEN None ELSE cs[CHOOSE k \in ks : \A j \in ks : j <= k][field]

\* the position of the user message of the current turn
TurnStart ==
  LET us == { k \in 1..Len(messages) : messages[k].role = "user" }
  IN  IF us = {} THEN 0 ELSE CHOOSE k \in us : \A j \in us : j <= k

\* the read loop has parsed a Done event
DoneReceived == \E k \in 1..Len(received) : received[k].type = "done"

\* C19: once the consumer has parsed chunks, the message after the user message
\* of the turn is an assistant message whose content is the concatenation of the
\* contents of the parsed chunks, in order, and whose sources and usage are
\* those of the last chunk that carried them.
C19_ChunkAccumulation ==
  (ReceivedChunks # << >>) =>
    /\ Len(messages) > TurnStart
    /\ LET m == messages[TurnStart + 1]
       IN  /\ m.role = "assistant"
           /\ m.content = Concat([k \in 1..Len(ReceivedChunks) |-> ReceivedChunks[k].content])
           /\ m.sources = Carried(ReceivedChunks, "sources")
           /\ m.usage = Carried(ReceivedChunks, "usage")

\* C33: after a turn that completed with every event of the stream parsed, the
\* assistant message of the turn holds the trimmed output of the reply the
\* relay streamed.
C33_RoundTrip ==
  \A r \in SampleReplies :
    (/\ StreamTurnEnded
     /\ outcome = "completed"
     /\ received = sent
     /\ sent = RelayStream(chunkText(r.output.s, ChunkSize), r)
     /\ trim(r.output.s) # << >>) =>
      /\ Len(messages) > TurnStart
      /\ messages[TurnStart + 1].role = "assistant"
      /\ messages[TurnStart + 1].content = trim(r.output.s)

\* the texts the turn has streamed so far: fullResponse after each chunk
StreamedTexts ==
  { Concat([k \in 1..j |-> ReceivedChunks[k].content]) : j \in 1..Len(ReceivedChunks) }

\* C35: while a turn streams on the page, with file uploads and Clear on the
\* same chat interleaved, the streamed text is the content of at most one
\* message, and a read changes no message that is there already other than
\* the assistant message holding the text streamed so far.
C35_ChunksKeepToTheirMessage ==
  /\ [](Cardinality({ k \in 1..Len(messages) :
                        /\ messages[k].role = "assistant"
                        /\ messages[k].content \in StreamedTexts }) <= 1)
  /\ [][(\E n \in ReadSizes : Read(n)) =>
          \A k \in 1..Len(messages) :
            \/ messages'[k] = messages[k]
            \/ /\ fullResponse # << >>
               /\ messages[k].role = "assistant"
               /\ messages[k].content = fullResponse]_vars

\* the user is shown that the turn failed: the page has appended its error
\* message, ChatInterface has set error
ErrorShown ==
  IF consumer = "handleSendMessage"
  THEN messages # << >> /\ messages[Len(messages)] = Message("assistant", TError, None, None)
  ELSE error # ""

\* C36: a turn whose request is answered with a JSON error response (400 or
\* 500) instead of an event stream ends in the error branch of the client, with
\* the error shown, never as a completed turn.
C36_RequestFailureVisible ==
  [][(/\ \/ cpc = "fetch" /\ ResponseJson
         \/ cpc = "reading" /\ sent = << >>
      /\ cpc' = "idle") =>
       (outcome' = "failed" /\ ErrorShown')]_vars

\* C20: once the consumer has parsed a Done event it reads no more, and nothing
\* it does from then on changes the messages.
C20_DoneStopsConsuming ==
  /\ [](DoneReceived => cpc # "reading")
  /\ [][(DoneReceived /\ cpc = "reading") => messages' = messages]_vars

\* the record of an event lies at position p of a read, on a line of its own
RecordAt(read, p) ==
  /\ p + 4 <= Len(read)
  /\ read[p].sym = "da" /\ read[p + 1].sym = "ta:" /\ read[p + 2].sym = "sp"
  /\ read[p + 3].sym = "j1" /\ read[p + 4].sym = "j2" /\ read[p + 3].k = read[p + 4].k
  /\ (p = 1 \/ read[p - 1].sym = "nl")
  /\ (p + 4 = Len(read) \/ read[p + 5].sym = "nl")

\* the events whose whole record a read holds, in their order in the read
RECURSIVE RecordsFrom(_, _)
RecordsFrom(read, p) ==
  IF p > Len(read) THEN << >>
  ELSE (IF RecordAt(read, p) THEN << EventAt(read[p + 3].k) >> ELSE << >>)
       \o RecordsFrom(read, p + 1)

RecordsIn(read) == RecordsFrom(read, 1)

\* a read holds bytes that belong to no whole record: a line that does not parse
MalformedIn(read) ==
  Cardinality({ p \in 1..Len(read) : read[p].sym # "nl" }) > 5 * Len(RecordsIn(read))

\* the contents of the chunk events of a sequence of events, concatenated
ContentsOf(evs) ==
  LET cs == SelectSeq(evs, LAMBDA e : e.type = "chunk")
  IN  Concat([k \in 1..Len(cs) |-> cs[k].content])

\* the bytes the step has read off the wire (none when the step is not a read)
BytesRead == SubSeq(wire, 1, Len(wire) - Len(wire'))

\* the step is a read of the loop
IsRead == cpc = "reading" /\ Len(wire') < Len(wire)

\* C21: a read with a line that does not parse leaves the turn running; the
\* consumer's state changes by the whole records of the read only, all of which
\* are processed in order, and not at all when the read holds no whole record.
C21_MalformedLineSkipped ==
  [][(IsRead /\ MalformedIn(BytesRead)) =>
       /\ cpc' = "reading"
       /\ isLoading' = isLoading
       /\ outcome' = outcome
       /\ error' = error
       /\ received' = received \o RecordsIn(BytesRead)
       /\ (RecordsIn(BytesRead) = << >>) =>
            (messages' = messages /\ fullResponse' = fullResponse)]_vars

\* the consumer is still reading after it skipped the bytes of the first record
\* and processed a later chunk
C21_Witness ==
  /\ cpc = "reading"
  /\ sent # << >>
  /\ received # << >>
  /\ received[1].type = "chunk"

\* C22: a read that holds several whole records has every one of them
\* processed, in their order in the read: the events are parsed in that order
\* and the contents of its chunks are appended to the answer in that order.
C22_MultipleRecordsPerRead ==
  [][(IsRead /\ Len(RecordsIn(BytesRead)) >= 2) =>
       /\ received' = received \o RecordsIn(BytesRead)
       /\ IF consumer = "handleSendMessage"
          THEN /\ fullResponse' = fullResponse \o ContentsOf(RecordsIn(BytesRead))
               /\ (ContentsOf(RecordsIn(BytesRead)) # << >>) =>
                    messages'[Len(messages')] =
                      Message("assistant", fullResponse', None, None)
          ELSE /\ Len(messages') = Len(messages)
               /\ messages'[Len(messages)].content =
                    messages[Len(messages)].content \o ContentsOf(RecordsIn(BytesRead))]_vars

\* the latest read held the whole stream of a reply of two chunks
C22_Witness ==
  /\ cpc = "reading"
  /\ Len(RecordsIn(chunk)) = 4
  /\ received = sent
  /\ wire = << >>

\* a turn is in flight: its request or its response body is pending
InFlight == cpc \in {"fetch", "reading"}

\* C25: a send appends the user message after the messages of the chat and
\* clears the input; isLoading is true exactly while the turn is in flight; and
\* every turn in flight ends, with isLoading false, however it ends.
C25_TurnLifecycle ==
  /\ [][(turns' = turns + 1) =>
          /\ input' = << >>
          /\ Len(messages') > Len(messages)
          /\ SubSeq(messages', 1, Len(messages)) = messages
          /\ messages'[Len(messages) + 1] =
               Message("user", IF consumer = "handleSubmit" THEN trim(input) ELSE input,
                       None, None)]_vars
  /\ [](InFlight <=> isLoading)
  /\ (InFlight ~> (cpc = "idle" /\ ~isLoading /\ outcome \in {"completed", "failed"}))

\* a turn that ended in the failure branch after its stream was opened
C25_Witness ==
  /\ cpc = "idle"
  /\ turns = 1
  /\ outcome = "failed"
  /\ sent # << >>
  /\ ~isLoading
  /\ messages[1].role = "user"

Terminators == {".", "?", "!"}

\* the offsets lo..hi of a text that hold one of the characters cs
OffsetsOf(text, cs, lo, hi) == { p \in lo..Min(hi, Len(text) - 1) : text[p + 1] \in cs }

\* the greatest and the least element of a non-empty set of offsets
Greatest(S) == CHOOSE p \in S : \A q \in S : q <= p

Least(S) == CHOOSE p \in S : \A q \in S : p <= q

\* a call of chunkText has run its first iteration on a text longer than the window
FirstCutMade == call.fn = "chunkText" /\ Len(pushed) >= 1 /\ Len(call.text) > call.chunkSize

\* the reply the validation was applied to has no output or a falsy one
NoOutput(r) == r.kind # "object" \/ ~Truthy(r.output)

C12_AtLeastOneSegment ==
  (returned /\ call.fn = "chunkText" /\ call.text # << >> /\ call.chunkSize >= 1) =>
    /\ Len(segments) >= 1
    /\ \A k \in 1..Len(segments) : trim(segments[k]) # << >>
    /\ \A k \in 1..Len(segments) :
         ChunkEvent(segments, k - 1, NoReply).isLast = (k = Len(segments))

\* C12 as amended: the same for a text that holds a character that is not
\* whitespace; a text of whitespace only yields no segment.
C12_AtLeastOneSegmentAmended ==
  (returned /\ call.fn = "chunkText" /\ call.chunkSize >= 1) =>
    /\ (trim(call.text) # << >>) => Len(segments) >= 1
    /\ (trim(call.text) = << >>) => segments = << >>
    /\ \A k \in 1..Len(segments) : trim(segments[k]) # << >>
    /\ \A k \in 1..Len(segments) :
         ChunkEvent(segments, k - 1, NoReply).isLast = (k = Len(segments))

\* a text whose slices were partly empty has been chunked into two segments
C12_Witness ==
  /\ returned
  /\ call.fn = "chunkText"
  /\ Len(segments) = 2
  /\ Len(pushed) > Len(segments)

\* C13: on a text longer than the window whose first sentence terminator lies
\* past offset n (at 712 with n = 700), the first segment ends with that
\* terminator and not at offset n.
C13_BoundaryPreference ==
  FirstCutMade =>
    LET ts == OffsetsOf(call.text, Terminators, 0, Len(call.text))
    IN  (ts # {} /\ Least(ts) > call.chunkSize) =>
          pushed[1] = trim(slice(call.text, 0, Least(ts) + 1))

\* C13 as amended: the first segment ends with the last sentence terminator at
\* an offset in 1..n, inclusive of it; when there is none there, a terminator
\* past offset n is not looked for and the first cut is made at or before n.
C13_BoundaryPreferenceAmended ==
  FirstCutMade =>
    LET ts == OffsetsOf(call.text, Terminators, 1, call.chunkSize)
    IN  IF ts # {}
        THEN /\ pushed[1] = trim(slice(call.text, 0, Greatest(ts) + 1))
             /\ (Len(pushed) = 1) => currentIndex = Greatest(ts) + 1
        ELSE /\ Len(pushed[1]) <= call.chunkSize
             /\ (Len(pushed) = 1) => currentIndex <= call.chunkSize

\* the text with sentence ends at offsets 650 and 712 has been cut, with the
\* chunk size of the route, right after offset 650
C13_Witness ==
  /\ FirstCutMade
  /\ call.chunkSize = ChunkSize
  /\ Len(pushed) = 1
  /\ currentIndex = 651
  /\ OffsetsOf(call.text, Terminators, 0, Len(call.text)) = {650, 712}

\* C14: on a text longer than n with no sentence terminator at the offsets 0..n
\* but a space there, the first cut is made at the last of those spaces, the
\* first segment is text[0 .. that space) and the space is in no segment.
C14_WordBoundaryFallback ==
  FirstCutMade =>
    LET ts == OffsetsOf(call.text, Terminators, 0, call.chunkSize)
        sp == OffsetsOf(call.text, {" "}, 0, call.chunkSize)
    IN  (ts = {} /\ sp # {}) =>
          /\ pushed[1] = slice(call.text, 0, Greatest(sp))
          /\ (Len(pushed) = 1) => currentIndex = Greatest(sp)
          /\ (Len(pushed) >= 2) => (pushed[2] = << >> \/ Head(pushed[2]) # " ")

\* C14 as amended: the same for a last space at an offset in 1..n, the first
\* segment being text[0 .. that space) trimmed; a space at offset 0 is no cut.
C14_WordBoundaryFallbackAmended ==
  FirstCutMade =>
    LET ts == OffsetsOf(call.text, Terminators, 0, call.chunkSize)
        sp == OffsetsOf(call.text, {" "}, 1, call.chunkSize)
    IN  (ts = {} /\ sp # {}) =>
          /\ pushed[1] = trim(slice(call.text, 0, Greatest(sp)))
          /\ (Len(pushed) = 1) => currentIndex = Greatest(sp)
          /\ (Len(pushed) >= 2) => (pushed[2] = << >> \/ Head(pushed[2]) # " ")

\* the text whose last space is at offset 690 has been chunked with the chunk
\* size of the route: the first segment is its first 690 characters
C14_Witness ==
  /\ returned
  /\ call.fn = "chunkText"
  /\ call.chunkSize = ChunkSize
  /\ OffsetsOf(call.text, {" "}, 0, Len(call.text)) = {690}
  /\ Len(segments) = 2
  /\ segments[1] = Rep("a", 690)

\* the consecutive raw windows of n characters of a text
RECURSIVE Windows(_, _)
Windows(text, n) ==
  IF text = << >> THEN << >>
  ELSE << SubSeq(text, 1, Min(n, Len(text))) >> \o Windows(SubSeq(text, n + 1, Len(text)), n)

\* C15: chunkText applied to a text with no space and no sentence terminator
\* returns the consecutive raw windows of n characters of the text, whose
\* concatenation is the text.
C15_SingleLongToken ==
  (returned /\ call.fn = "chunkText"
     /\ OffsetsOf(call.text, Terminators \cup {" "}, 0, Len(call.text)) = {}) =>
    /\ segments = Windows(call.text, call.chunkSize)
    /\ Concat(segments) = call.text

\* C15 as amended: the same for a text with no whitespace character (space,
\* tab, line break) and no sentence terminator.
C15_SingleLongTokenAmended ==
  (returned /\ call.fn = "chunkText"
     /\ OffsetsOf(call.text, Terminators \cup Whitespace, 0, Len(call.text)) = {}) =>
    /\ segments = Windows(call.text, call.chunkSize)
    /\ Concat(segments) = call.text

\* the token of 1401 letters has been chunked with the chunk size of the route
C15_Witness ==
  /\ returned
  /\ call.fn = "chunkText"
  /\ call.text = Rep("a", 2 * ChunkSize + 1)
  /\ Len(segments) = 3
  /\ Len(segments[3]) = 1

\* the characters chunkText has still to scan, and one for its return
Remaining ==
  (IF currentIndex < Len(call.text) THEN Len(call.text) - currentIndex ELSE 0)
    + (IF returned THEN 0 ELSE 1)

\* C30: with a chunk size of 1 or more, every iteration of the loop of
\* chunkText moves currentIndex forward and the loop makes at most
\* length(text) iterations; chunkText terminates: until it has returned it can
\* always take a step, and every step it takes leaves it less to scan or
\* returns.
C30_ChunkTextTerminates ==
  /\ [][(call.fn = "chunkText" /\ call.chunkSize >= 1 /\ pushed' # pushed) =>
          currentIndex' > currentIndex]_vars
  /\ []((call.fn = "chunkText" /\ call.chunkSize >= 1) => Len(pushed) <= Len(call.text))
  /\ []((call.fn = "chunkText" /\ call.chunkSize >= 1 /\ ~returned) =>
          ENABLED (ChunkIterate \/ ChunkReturn))
  /\ [][(call.fn = "chunkText" /\ call.chunkSize >= 1) => Remaining' < Remaining]_vars

\* chunkText has returned after one iteration for each character of the text
C30_Witness ==
  /\ call.fn = "chunkText"
  /\ returned
  /\ Len(call.text) = MaxTextLen
  /\ Len(pushed) = Len(call.text)

\* C31: every segment chunkText returns with a chunk size n of 1 or more has
\* at most n characters.
C31_SegmentBound ==
  (returned /\ call.fn = "chunkText" /\ call.chunkSize >= 1) =>
    \A k \in 1..Len(segments) : Len(segments[k]) <= call.chunkSize

\* the text without its whitespace characters
NonWhitespace(text) == SelectSeq(text, LAMBDA c : c \notin Whitespace)

\* the text without the characters at the given positions
Without(text, positions) ==
  [k \in 1..(Len(text) - Cardinality(positions)) |->
     text[CHOOSE p \in k..(k + Cardinality(positions)) :
            p \notin positions /\ p - Cardinality({ d \in positions : d < p }) = k]]

\* out is the text with some of its whitespace characters removed
WhitespaceRemoved(out, text) ==
  \E positions \in SUBSET { p \in 1..Len(text) : text[p] \in Whitespace } :
    /\ Len(text) - Cardinality(positions) = Len(out)
    /\ out = Without(text, positions)

\* C32: the concatenation of the segments chunkText returns, in order, is the
\* text with some whitespace characters removed: the characters of the text
\* that are not whitespace are all there, once each and in their order.
C32_OnlyWhitespaceLost ==
  (returned /\ call.fn = "chunkText" /\ call.chunkSize >= 1) =>
    /\ WhitespaceRemoved(Concat(segments), call.text)
    /\ NonWhitespace(Concat(segments)) = NonWhitespace(call.text)

\* chunkText has cut a text at a space between two words and dropped the space
C32_Witness ==
  /\ returned
  /\ call.fn = "chunkText"
  /\ Len(segments) = 2
  /\ " " \in { call.text[k] : k \in 1..Len(call.text) }
  /\ NonWhitespace(call.text) # << >>
  /\ Len(Concat(segments)) < Len(call.text)
  /\ Head(call.text) \notin Whitespace
  /\ call.text[Len(call.text)] \notin Whitespace

\* ------------------------------------------------------------------
\* Properties of the chat list
\* ------------------------------------------------------------------

\* the current chat is a chat of the list, when there is one
CurrentChatListed ==
  currentChatId = None \/ \E k \in 1..Len(chats) : Some(chats[k].id) = currentChatId

\* C38: whatever new-chat, switch, delete, Clear, login and logout steps the
\* page takes, currentChatId is null or the id of a chat of the list; a step
\* that deletes the current chat selects the first chat that remains, and when
\* none remains the list is left with one chat, without messages and selected.
C38_ChatListInvariant ==
  /\ []CurrentChatListed
  /\ [][\A chatId \in ChatIds :
          (handleDeleteChat(chatId) /\ currentChatId = Some(chatId)) =>
            LET remaining == SelectSeq(chats, LAMBDA c : c.id # chatId)
            IN  IF remaining # << >>
                THEN chats' = remaining /\ currentChatId' = Some(remaining[1].id)
                ELSE /\ Len(chats') = 1
                     /\ chats'[1].messages = << >>
                     /\ currentChatId' = Some(chats'[1].id)]_vars

\* the newer of two restored chats has been deleted: the older one is what
\* remains and is selected
C38_Witness ==
  /\ isAuthenticated
  /\ chats = << Chat(-1, << >>) >>
  /\ currentChatId = Some(-1)

\* ------------------------------------------------------------------
\* Properties of the authentication module
\* ------------------------------------------------------------------

\* a call of the given function has just returned
Returns(op) == authResult' # authResult /\ authResult'.op = op

SessionIds == 1..(MaxSessionIds + 1)

\* C27: the users hold at most one user per username; a call of registerUser
\* with a username that is registered does not go on to the hash and the save;
\* a call of registerUser that returns a failure leaves users and sessions as
\* they were.
C27_DuplicateRegistration ==
  /\ [](\A j, k \in 1..Len(users) : users[j].username = users[k].username => j = k)
  /\ [][\A r \in pending' \ pending : ~userExists(users, r.username)]_vars
  /\ [][(Returns("registerUser") /\ ~authResult'.success) =>
          (users' = users /\ sessions' = sessions)]_vars

\* a second registration of a registered username was refused
C27_Witness ==
  /\ authResult.op = "registerUser"
  /\ ~authResult.success
  /\ authResult.message \in {"Username already exists", "User already exists"}
  /\ userExists(users, authResult.username)
  /\ authResult.password # findUser(users, authResult.username)[1].passwordHash[2]

\* C28: logoutUser(s) succeeds exactly when s is in the sessions, removes it
\* and leaves the users and the answer of validateSession for every other
\* session as they were; on a session that is not there it answers 'Session
\* not found' and changes nothing; a session id that was generated and is no
\* longer in the sessions never comes back, and validateSession is invalid
\* for every id that is not in the sessions.
C28_LogoutInvalidates ==
  /\ [][Returns("logoutUser") =>
          LET s == authResult'.sessionId
          IN  /\ authResult'.success <=> (findSession(sessions, s) # None)
              /\ authResult'.success => findSession(sessions', s) = None
              /\ ~authResult'.success =>
                   (authResult'.message = "Session not found" /\ sessions' = sessions)
              /\ users' = users
              /\ \A t \in SessionIds \ {s} : validateSession(t)' = validateSession(t)]_vars
  /\ [][\A s \in 1..generated : findSession(sessions, s) = None => findSession(sessions', s) = None]_vars
  /\ [](\A s \in SessionIds : validateSession(s).valid => findSession(sessions, s) # None)

\* a session that was logged out is logged out again, while another session
\* is still valid
C28_Witness ==
  /\ authResult.op = "logoutUser"
  /\ ~authResult.success
  /\ authResult.sessionId <= generated
  /\ ~validateSession(authResult.sessionId).valid
  /\ \E t \in SessionIds : validateSession(t).valid

\* C29: authenticateUser / loginUser succeeds exactly when the users hold the
\* username with the hash of the given password; a success adds one session,
\* of that user, whose id it returns, and a failure leaves users and sessions
\* as they were.
C29_VerifiedCredentials ==
  [][Returns("authenticateUser") =>
      LET user == findUser(users, authResult'.username)
          verified == /\ user # None
                      /\ user[1].passwordHash = hashPassword(authModule, authResult'.password)
      IN  /\ authResult'.success <=> verified
          /\ users' = users
          /\ authResult'.success =>
               /\ findSession(sessions, authResult'.session) = None
               /\ sessions' = sessions \cup {[id |-> authResult'.session, userId |-> user[1].id]}
          /\ ~authResult'.success => sessions' = sessions]_vars

\* a login with the wrong password of a registered user was refused, after a
\* login with the right one opened a session
C29_Witness ==
  /\ authResult.op = "authenticateUser"
  /\ ~authResult.success
  /\ authResult.password # ""
  /\ userExists(users, authResult.username)
  /\ \E x \in sessions : x.userId = findUser(users, authResult.username)[1].id

\* C39: validateSession answers valid for exactly the session ids that a
\* successful login or registration has returned and that have not been logged
\* out since (those the sessions hold), and for the session a call has just
\* returned it answers with the id and the username of the user of that call.
C39_SessionOwnership ==
  /\ \A s \in SessionIds :
       validateSession(s).valid <=> (s <= generated /\ findSession(sessions, s) # None)
  /\ (authResult.success /\ authResult.session # 0) =>
       validateSession(authResult.session) =
         [valid |-> TRUE, userId |-> authResult.userId, username |-> authResult.username]

====
